---------------------------- MODULE Spec2Model ----------------------------
(***************************************************************************)
(* devsgrid: the grid worker (masterData / currentData / history) and the  *)
(* command engine (executeCommand), as a state machine.                    *)
(*                                                                         *)
(* Row objects live in a heap addressed by reference; masterData and       *)
(* currentData are sequences of references, so that "the same object in    *)
(* two arrays" and "a detached copy" are different things in the model as  *)
(* they are in the JavaScript.                                             *)
(***************************************************************************)
EXTENDS Integers, Sequences, FiniteSets, TLC

(***************************************************************************)
(* Bounds of the model.                                                    *)
(***************************************************************************)
MaxRows == 2           \* rows of the ingested files
MaxLoads == 2          \* ingestions (LOAD_FILE / LOAD_EXISTING_DATA) per run
MaxSteps == 5          \* requests per run

MAX_HISTORY == 50

(***************************************************************************)
(* JavaScript values: numbers, strings and undefined, in one record shape. *)
(***************************************************************************)
Num(k) == [t |-> "number", n |-> k, s |-> ""]
Str(x) == [t |-> "string", n |-> 0, s |-> x]
Undefined == [t |-> "undefined", n |-> 0, s |-> ""]
NaN == [t |-> "number", n |-> 0, s |-> "NaN"]
NA == Str("NA")

isNaN(v) == v.t = "number" /\ v.s = "NaN"

\* `row_${Date.now()}_${idx}_${Math.random()...}`: the time and random parts
\* are one stamp per ingestion, taken as distinct from one ingestion to the
\* next; idx is the row's position in the ingested list.
GenId(stamp, idx) == [t |-> "string", n |-> stamp * 10 + idx + 1, s |-> "row_"]

\* !v
Falsy(v) ==
    \/ v.t = "undefined"
    \/ v.t = "number" /\ (v.n = 0 \/ v.s = "NaN")
    \/ v.t = "string" /\ v.s = "" /\ v.n = 0

Keys == {"_id", "a", "b"}

MkRow(id, a, b) == [k \in Keys |-> IF k = "_id" THEN id ELSE IF k = "a" THEN a ELSE b]

\* row[col]: a property the object does not have reads as undefined
Get(row, col) == IF col \in Keys THEN row[col] ELSE Undefined

Range(q) == {q[i] : i \in 1..Len(q)}

\* Array.prototype.splice(at, 1) and splice(at, 0, x), 0-based, 0 <= at <= length
RemoveAt(q, at) == SubSeq(q, 1, at) \o SubSeq(q, at + 2, Len(q))
InsertAt(q, at, x) == SubSeq(q, 1, at) \o <<x>> \o SubSeq(q, at + 1, Len(q))

\* splice's start: a negative start counts from the end, clamped to [0, length]
SpliceStart(len, start) ==
    IF start < 0 THEN (IF len + start < 0 THEN 0 ELSE len + start)
    ELSE IF start > len THEN len ELSE start

(***************************************************************************)
(* The worker's state.                                                     *)
(***************************************************************************)
VARIABLES
    heap,          \* reference -> row object (the objects still reachable)
    masterData,    \* sequence of references
    currentData,   \* sequence of references
    aliased,       \* currentData and masterData are one and the same array
    history,       \* sequence of recorded actions
    historyIndex,  \* the cursor, -1 .. Len(history) - 1
    stamp,         \* ingestions so far (the Date.now()/Math.random() part of new ids)
    viewOrigin,    \* "master": the view was made from master's rows by LOAD, RESET,
                   \* FILTER, SORT; "select": a SELECT is among the commands that made it
    viewMutated,   \* a deletion, undo or redo has acted since the view was made from master
    request,       \* the request handled last
    out,           \* the messages posted while handling it
    steps,         \* requests handled so far
    posted,        \* the host: requests the user's actions have posted so far
    historyState,  \* the host: canUndo / canRedo as the last HISTORY_STATE received set them
    toWorker,      \* requests posted to the worker, not yet handled
    toHost,        \* messages posted to the host, not yet handled
    dbCalls,       \* IndexedDB: calls of saveSession / updateSessionData awaiting initDB()
    transactions,  \* IndexedDB: the transactions created, not yet run, in creation order
    stored         \* IndexedDB: the 'current_session' record of the session store

\* the host and the session store
host == <<posted, historyState, toWorker, toHost, dbCalls, transactions, stored>>

vars == <<heap, masterData, currentData, aliased, history, historyIndex,
          stamp, viewOrigin, viewMutated, request, out, steps, host>>

\* the part of the state the handlers read and write
St == [heap |-> heap, masterData |-> masterData, currentData |-> currentData,
       aliased |-> aliased, history |-> history, historyIndex |-> historyIndex,
       stamp |-> stamp, out |-> <<>>]

\* the rows an array shows: what postMessage's structured clone carries
Rows(s, q) == [i \in 1..Len(q) |-> s.heap[q[i]]]

(***************************************************************************)
(* Messages posted to the host.                                            *)
(***************************************************************************)
NoStats == [count |-> -1, sum |-> 0, min |-> 0, max |-> 0, minmax |-> FALSE]

Msg(type, rows) == [type |-> type, rows |-> rows, canUndo |-> FALSE, canRedo |-> FALSE,
                    stats |-> NoStats, format |-> ""]

Post(s, m) == [s EXCEPT !.out = Append(@, m)]

PostView(s, type) == Post(s, Msg(type, Rows(s, s.currentData)))

\* self.postMessage({type: 'HISTORY_STATE', payload: {canUndo, canRedo}})
\* a notification whose canRedo is off by one
notifyHistoryState_RedoAtEnd(s) ==
    Post(s, [type |-> "HISTORY_STATE", rows |-> <<>>,
             canUndo |-> s.historyIndex >= 0,
             canRedo |-> s.historyIndex < Len(s.history),
             stats |-> NoStats, format |-> ""])

notifyHistoryState(s) ==
    Post(s, [type |-> "HISTORY_STATE", rows |-> <<>>,
             canUndo |-> s.historyIndex >= 0,
             canRedo |-> s.historyIndex < Len(s.history) - 1,
             stats |-> NoStats, format |-> ""])

(***************************************************************************)
(* History.                                                                *)
(***************************************************************************)
\* history = history.slice(0, historyIndex + 1); history.push(action);
\* if (history.length > MAX_HISTORY) history.shift(); else historyIndex++;
\* a pushHistory that advances the cursor also when it evicts
pushHistory_AlwaysAdvances(s, action) ==
    LET kept == SubSeq(s.history, 1, s.historyIndex + 1)
        pushed == Append(kept, action)
    IN  notifyHistoryState(
            IF Len(pushed) > MAX_HISTORY
            THEN [s EXCEPT !.history = Tail(pushed), !.historyIndex = @ + 1]
            ELSE [s EXCEPT !.history = pushed, !.historyIndex = @ + 1])

\* a pushHistory that keeps the actions after the cursor
pushHistory_KeepsUndone(s, action) ==
    LET pushed == Append(s.history, action)
    IN  notifyHistoryState(
            IF Len(pushed) > MAX_HISTORY
            THEN [s EXCEPT !.history = Tail(pushed)]
            ELSE [s EXCEPT !.history = pushed, !.historyIndex = @ + 1])

\* a pushHistory that does not tell the host
pushHistory_Silent(s, action) ==
    LET kept == SubSeq(s.history, 1, s.historyIndex + 1)
        pushed == Append(kept, action)
    IN  IF Len(pushed) > MAX_HISTORY
        THEN [s EXCEPT !.history = Tail(pushed)]
        ELSE [s EXCEPT !.history = pushed, !.historyIndex = @ + 1]

pushHistory(s, action) ==
    LET kept == SubSeq(s.history, 1, s.historyIndex + 1)
        pushed == Append(kept, action)
    IN  notifyHistoryState(
            IF Len(pushed) > MAX_HISTORY
            THEN [s EXCEPT !.history = Tail(pushed)]
            ELSE [s EXCEPT !.history = pushed, !.historyIndex = @ + 1])

\* the recorded actions, one record shape: a CELL_EDIT has no items, a DELETE_ROW
\* is its one {rowId, rowObj, masterIndex}, a DELETE_ROWS its list of them
Item(rowId, rowObj, masterIndex) ==
    [rowId |-> rowId, rowObj |-> rowObj, masterIndex |-> masterIndex]

CellEditAction(rowId, col, oldValue, newValue) ==
    [type |-> "CELL_EDIT", rowId |-> rowId, col |-> col, oldValue |-> oldValue,
     newValue |-> newValue, items |-> <<>>]

DeleteRowAction(rowId, rowObj, masterIndex) ==
    [type |-> "DELETE_ROW", rowId |-> rowId, col |-> "", oldValue |-> Undefined,
     newValue |-> Undefined, items |-> <<Item(rowId, rowObj, masterIndex)>>]

DeleteRowsAction(items) ==
    [type |-> "DELETE_ROWS", rowId |-> Undefined, col |-> "", oldValue |-> Undefined,
     newValue |-> Undefined, items |-> items]

(***************************************************************************)
(* The heap: allocation of new objects, and the objects still reachable.   *)
(***************************************************************************)
RECURSIVE FreeRefs(_, _, _)
\* the n smallest references not in `used`, from `from` up
FreeRefs(used, n, from) ==
    IF n = 0 THEN <<>>
    ELSE IF from \in used THEN FreeRefs(used, n, from + 1)
    ELSE <<from>> \o FreeRefs(used, n - 1, from + 1)

\* new objects holding `rows`; the result's refs are theirs, in order
Alloc(s, rows) ==
    LET refs == FreeRefs(DOMAIN s.heap, Len(rows), 1)
        new == {refs[i] : i \in 1..Len(rows)}
        pos(r) == CHOOSE i \in 1..Len(rows) : refs[i] = r
    IN  [heap |-> [r \in DOMAIN s.heap \cup new |->
                      IF r \in new THEN rows[pos(r)] ELSE s.heap[r]],
         refs |-> refs]

HistoryRefs(h) ==
    UNION {{h[i].items[j].rowObj : j \in 1..Len(h[i].items)} : i \in 1..Len(h)}

Live(s) == Range(s.masterData) \cup Range(s.currentData) \cup HistoryRefs(s.history)

Collect(s) == [s EXCEPT !.heap = [r \in Live(s) |-> s.heap[r]]]

(***************************************************************************)
(* Arrays: a write to masterData is a write to currentData when the two    *)
(* are the same array.                                                     *)
(***************************************************************************)
SetMaster(s, q) ==
    IF s.aliased THEN [s EXCEPT !.masterData = q, !.currentData = q]
    ELSE [s EXCEPT !.masterData = q]

SetCurrent(s, q) ==
    IF s.aliased THEN [s EXCEPT !.masterData = q, !.currentData = q]
    ELSE [s EXCEPT !.currentData = q]

\* a result that replaces master as well as the view
NewCurrent_AndMaster(s, q) == [s EXCEPT !.currentData = q, !.masterData = q, !.aliased = FALSE]

\* currentData = <a new array>
NewCurrent(s, q) == [s EXCEPT !.currentData = q, !.aliased = FALSE]

\* masterData.findIndex(r => r._id === id), 0-based, -1 when there is none
StrictEq(a, b) == a = b /\ ~isNaN(a)

FindIndex(s, q, id) ==
    LET hits == {i \in 1..Len(q) : StrictEq(s.heap[q[i]]["_id"], id)}
    IN  IF hits = {} THEN -1
        ELSE (CHOOSE i \in hits : \A j \in hits : i <= j) - 1

(***************************************************************************)
(* Ingestion.                                                              *)
(***************************************************************************)
\* rows.map((row, idx) => !row._id ? {...row, _id: `row_..._${idx}_...`} : row)
ensureIds(rows, st) ==
    [i \in 1..Len(rows) |->
        IF Falsy(rows[i]["_id"])
        THEN [rows[i] EXCEPT !["_id"] = GenId(st, i - 1)]
        ELSE rows[i]]

\* masterData = ensureIds(rows); currentData = [...masterData]. The arrays replaced
\* are dropped first: of their objects only those the history holds stay reachable.
OnLOAD(s, rows) ==
    LET a == Alloc(Collect([s EXCEPT !.masterData = <<>>, !.currentData = <<>>]),
                   ensureIds(rows, s.stamp + 1))
    IN  [s EXCEPT !.heap = a.heap, !.masterData = a.refs, !.currentData = a.refs,
                  !.aliased = FALSE, !.stamp = @ + 1]

\* LOAD_FILE: DATA_LOADED, then SESSION_SAVE_NEEDED
OnLOAD_FILE(s, rows) ==
    Post(PostView(OnLOAD(s, rows), "DATA_LOADED"), Msg("SESSION_SAVE_NEEDED", <<>>))

\* a LOAD_EXISTING_DATA that asks for a save as LOAD_FILE does
OnLOAD_EXISTING_DATA_Saves(s, rows) ==
    Post(PostView(OnLOAD(s, rows), "DATA_LOADED"), Msg("SESSION_SAVE_NEEDED", <<>>))

\* LOAD_EXISTING_DATA: DATA_LOADED
OnLOAD_EXISTING_DATA(s, rows) == PostView(OnLOAD(s, rows), "DATA_LOADED")

\* RESET: currentData = [...masterData]
OnRESET(s) == PostView(NewCurrent(s, s.masterData), "DATA_UPDATED")

\* a snapshot of the rows the view shows
OnEXPORT_RAW_JSON_OfView(s) == Post(s, Msg("RAW_JSON_EXPORT", Rows(s, s.currentData)))

\* EXPORT_RAW_JSON: postMessage({type: 'RAW_JSON_EXPORT', payload: masterData})
OnEXPORT_RAW_JSON(s) == Post(s, Msg("RAW_JSON_EXPORT", Rows(s, s.masterData)))

(***************************************************************************)
(* Mutations.                                                              *)
(***************************************************************************)
\* currentData[rowIndex] is an object (truthy) exactly at the array's indices
InView(s, rowIndex) == rowIndex >= 0 /\ rowIndex < Len(s.currentData)

\* a CELL_EDIT that edits a copy of the row and shows the copy
OnCELL_EDIT_OnCopy(s, rowIndex, col, value) ==
    IF ~InView(s, rowIndex) THEN s
    ELSE
        LET rowObj == s.currentData[rowIndex + 1]
            oldValue == Get(s.heap[rowObj], col)
            a == Alloc(s, <<[s.heap[rowObj] EXCEPT ![col] = value]>>)
            s1 == [s EXCEPT !.heap = a.heap,
                            !.currentData = [@ EXCEPT ![rowIndex + 1] = a.refs[1]]]
            s2 == pushHistory(s1, CellEditAction(s1.heap[rowObj]["_id"], col, oldValue, value))
        IN  PostView(Post(s2, Msg("SESSION_SAVE_NEEDED", <<>>)), "DATA_UPDATED")

OnCELL_EDIT(s, rowIndex, col, value) ==
    IF ~InView(s, rowIndex) THEN s
    ELSE
        LET rowObj == s.currentData[rowIndex + 1]
            oldValue == Get(s.heap[rowObj], col)
            s1 == [s EXCEPT !.heap[rowObj][col] = value]
            \* rowId: rowObj._id is read after the assignment
            s2 == pushHistory(s1, CellEditAction(s1.heap[rowObj]["_id"], col, oldValue, value))
        IN  PostView(Post(s2, Msg("SESSION_SAVE_NEEDED", <<>>)), "DATA_UPDATED")

\* the body shared by DELETE_ROW and each index of DELETE_ROWS:
\* currentData.splice(idx, 1); masterIndex = masterData.findIndex(...);
\* if (masterIndex !== -1) masterData.splice(masterIndex, 1)
DeleteAt(s, idx) ==
    LET rowObj == s.currentData[idx + 1]
        rowId == s.heap[rowObj]["_id"]
        s1 == SetCurrent(s, RemoveAt(s.currentData, idx))
        masterIndex == FindIndex(s1, s1.masterData, rowId)
        s2 == IF masterIndex # -1 THEN SetMaster(s1, RemoveAt(s1.masterData, masterIndex))
              ELSE s1
    IN  [s |-> s2, item |-> Item(rowId, rowObj, masterIndex)]

\* a DELETE_ROW that counts a negative index from the view's end, as splice does
OnDELETE_ROW_At(s, rowIndex) ==
    LET idx == IF rowIndex < 0 THEN Len(s.currentData) + rowIndex ELSE rowIndex
    IN  IF ~InView(s, idx) THEN s
        ELSE
            LET d == DeleteAt(s, idx)
                s1 == pushHistory(d.s, DeleteRowAction(d.item.rowId, d.item.rowObj,
                                                       d.item.masterIndex))
            IN  Post(PostView(s1, "DATA_LOADED"), Msg("SESSION_SAVE_NEEDED", <<>>))

OnDELETE_ROW(s, rowIndex) ==
    IF ~InView(s, rowIndex) THEN s
    ELSE
        LET d == DeleteAt(s, rowIndex)
            s1 == pushHistory(d.s, DeleteRowAction(d.item.rowId, d.item.rowObj, d.item.masterIndex))
        IN  Post(PostView(s1, "DATA_LOADED"), Msg("SESSION_SAVE_NEEDED", <<>>))

RECURSIVE SortDesc(_)
\* [...rowIndices].sort((a, b) => b - a)
SortDesc(q) ==
    IF q = <<>> THEN <<>>
    ELSE LET m == CHOOSE i \in 1..Len(q) : \A j \in 1..Len(q) : q[i] >= q[j]
         IN  <<q[m]>> \o SortDesc(RemoveAt(q, m - 1))

Reverse(q) == [i \in 1..Len(q) |-> q[Len(q) + 1 - i]]

RECURSIVE DeleteEach(_, _, _)
\* sortedIndices.forEach(idx => { if (currentData[idx]) {...; deletedItems.push(...)} })
DeleteEach(s, indices, deletedItems) ==
    IF indices = <<>> THEN [s |-> s, items |-> deletedItems]
    ELSE IF ~InView(s, Head(indices)) THEN DeleteEach(s, Tail(indices), deletedItems)
    ELSE LET d == DeleteAt(s, Head(indices))
         IN  DeleteEach(d.s, Tail(indices), Append(deletedItems, d.item))

\* a DELETE_ROWS that posts and signals whether or not a row was deleted
OnDELETE_ROWS_AlwaysSaves(s, rowIndices) ==
    LET d == DeleteEach(s, SortDesc(rowIndices), <<>>)
        s1 == IF Len(d.items) = 0 THEN d.s
              ELSE pushHistory(d.s, DeleteRowsAction(Reverse(d.items)))
    IN  Post(PostView(s1, "DATA_LOADED"), Msg("SESSION_SAVE_NEEDED", <<>>))

OnDELETE_ROWS(s, rowIndices) ==
    LET d == DeleteEach(s, SortDesc(rowIndices), <<>>)
    IN  IF Len(d.items) = 0 THEN d.s
        ELSE Post(PostView(pushHistory(d.s, DeleteRowsAction(Reverse(d.items))), "DATA_LOADED"),
                  Msg("SESSION_SAVE_NEEDED", <<>>))

(***************************************************************************)
(* UNDO / REDO.                                                            *)
(***************************************************************************)
\* const row = masterData.find(r => r._id === action.rowId); if (row) row[col] = v
\* an undo/redo that looks the row up in the view instead of master
SetById_InView(s, rowId, col, v) ==
    LET k == FindIndex(s, s.currentData, rowId)
    IN  IF k = -1 THEN s ELSE [s EXCEPT !.heap[s.currentData[k + 1]][col] = v]

SetById(s, rowId, col, v) ==
    LET k == FindIndex(s, s.masterData, rowId)
    IN  IF k = -1 THEN s ELSE [s EXCEPT !.heap[s.masterData[k + 1]][col] = v]

\* if (!masterData.find(r => r._id === item.rowId)) {
\*     if (item.masterIndex !== undefined && item.masterIndex <= masterData.length)
\*         masterData.splice(item.masterIndex, 0, item.rowObj);
\*     else masterData.push(item.rowObj);
\*     if (currentData !== masterData) currentData.push(item.rowObj); }
\* a restore that forgets the recorded master index
Restore_AtEnd(s, item) ==
    IF FindIndex(s, s.masterData, item.rowId) # -1 THEN s
    ELSE
        LET s1 == SetMaster(s, Append(s.masterData, item.rowObj))
        IN  IF ~s1.aliased THEN SetCurrent(s1, Append(s1.currentData, item.rowObj)) ELSE s1

Restore(s, item) ==
    IF FindIndex(s, s.masterData, item.rowId) # -1 THEN s
    ELSE
        LET len == Len(s.masterData)
            s1 == IF item.masterIndex <= len
                  THEN SetMaster(s, InsertAt(s.masterData,
                                             SpliceStart(len, item.masterIndex), item.rowObj))
                  ELSE SetMaster(s, Append(s.masterData, item.rowObj))
        IN  IF ~s1.aliased THEN SetCurrent(s1, Append(s1.currentData, item.rowObj)) ELSE s1

RECURSIVE RestoreEach(_, _)
RestoreEach(s, items) ==
    IF items = <<>> THEN s ELSE RestoreEach(Restore(s, Head(items)), Tail(items))

UndoAction(s, action) ==
    IF action.type = "CELL_EDIT" THEN SetById(s, action.rowId, action.col, action.oldValue)
    ELSE RestoreEach(s, action.items)

\* an UNDO that applies the inverse and leaves the cursor where it was
OnUNDO_KeepsCursor(s) ==
    IF ~(s.historyIndex >= 0) THEN s
    ELSE
        LET s1 == UndoAction(s, s.history[s.historyIndex + 1])
        IN  notifyHistoryState(
                Post(PostView(s1, "DATA_LOADED"), Msg("SESSION_SAVE_NEEDED", <<>>)))

OnUNDO(s) ==
    IF ~(s.historyIndex >= 0) THEN s
    ELSE
        LET s1 == UndoAction(s, s.history[s.historyIndex + 1])
            s2 == [s1 EXCEPT !.historyIndex = @ - 1]
        IN  notifyHistoryState(
                Post(PostView(s2, "DATA_LOADED"), Msg("SESSION_SAVE_NEEDED", <<>>)))

\* masterIdx = masterData.findIndex(r => r._id === id); if (masterIdx !== -1) splice
RemoveFromMaster(s, id) ==
    LET k == FindIndex(s, s.masterData, id)
    IN  IF k = -1 THEN s ELSE SetMaster(s, RemoveAt(s.masterData, k))

RemoveFromCurrent(s, id) ==
    LET k == FindIndex(s, s.currentData, id)
    IN  IF k = -1 THEN s ELSE SetCurrent(s, RemoveAt(s.currentData, k))

\* REDO of a DELETE_ROW looks the row up in currentData by action.rowID, a property
\* the action does not have: undefined
RedoDeleteRow(s, action) ==
    RemoveFromCurrent(RemoveFromMaster(s, action.rowId), Undefined)

RECURSIVE RedoDeleteRows(_, _)
RedoDeleteRows(s, items) ==
    IF items = <<>> THEN s
    ELSE RedoDeleteRows(RemoveFromCurrent(RemoveFromMaster(s, Head(items).rowId),
                                          Head(items).rowId),
                        Tail(items))

RedoAction(s, action) ==
    IF action.type = "CELL_EDIT" THEN SetById(s, action.rowId, action.col, action.newValue)
    ELSE IF action.type = "DELETE_ROW" THEN RedoDeleteRow(s, action)
    ELSE RedoDeleteRows(s, action.items)

OnREDO(s) ==
    IF ~(s.historyIndex < Len(s.history) - 1) THEN s
    ELSE
        LET s1 == [s EXCEPT !.historyIndex = @ + 1]
            s2 == RedoAction(s1, s1.history[s1.historyIndex + 1])
        IN  notifyHistoryState(
                Post(PostView(s2, "DATA_LOADED"), Msg("SESSION_SAVE_NEEDED", <<>>)))

(***************************************************************************)
(* JavaScript's coercions and comparisons, on the strings the model uses.  *)
(***************************************************************************)
\* the model's strings in code-unit order (the order of < on strings)
StrOrder == <<"", "\"1\"", "\"NA\"", "\"a\"", "\"x\"", "1", "2", "3", "ASC", "DESC",
              "NA", "NaN", "a", "b", "k", "row_", "undefined", "x", "y", "z">>

Rank(x) == CHOOSE i \in 1..Len(StrOrder) : StrOrder[i] = x

\* Number(string): the numeric literals among the model's strings; "" is 0
NumLit == [x \in {"", "1", "2", "3"} |->
              IF x = "" THEN 0 ELSE IF x = "1" THEN 1 ELSE IF x = "2" THEN 2 ELSE 3]

\* Number(v)
ToNumber(v) ==
    IF v.t = "number" THEN v
    ELSE IF v.t = "string" /\ v.n = 0 /\ v.s \in DOMAIN NumLit THEN Num(NumLit[v.s])
    ELSE NaN

\* String(v), for the values `contains` is asked about
ToStr(v) ==
    IF v.t = "string" THEN v.s
    ELSE IF v.t = "undefined" THEN "undefined"
    ELSE IF isNaN(v) THEN "NaN"
    ELSE IF v.n = 0 THEN "0" ELSE IF v.n = 1 THEN "1" ELSE IF v.n = 2 THEN "2"
    ELSE IF v.n = 3 THEN "3" ELSE "4"

\* hay.includes(needle), among the model's strings
Includes(hay, needle) ==
    \/ needle = ""
    \/ hay = needle
    \/ <<hay, needle>> \in {<<"\"1\"", "1">>, <<"\"NA\"", "NA">>, <<"\"x\"", "x">>,
                            <<"\"a\"", "a">>, <<"NaN", "a">>}

\* a == b
LooseEq(a, b) ==
    IF a.t = b.t THEN a = b /\ ~isNaN(a)
    ELSE IF a.t = "undefined" \/ b.t = "undefined" THEN FALSE
    ELSE LET x == ToNumber(a)
             y == ToNumber(b)
         IN  ~isNaN(x) /\ ~isNaN(y) /\ x.n = y.n

\* a < b
Lt(a, b) ==
    IF a.t = "string" /\ b.t = "string"
    THEN Rank(a.s) < Rank(b.s) \/ (a.s = b.s /\ a.n < b.n)
    ELSE LET x == ToNumber(a)
             y == ToNumber(b)
         IN  ~isNaN(x) /\ ~isNaN(y) /\ x.n < y.n

\* a > b
Gt(a, b) == Lt(b, a)

(***************************************************************************)
(* The command engine: executeCommand(cmd, dataset).  A command is the     *)
(* list of its tokens, cmd.trim().split(/\s+/); its text is the tokens     *)
(* joined by single spaces.                                                *)
(***************************************************************************)
\* toUpperCase, on the model's verbs and directions
Upper(x) ==
    CASE x = "filter" -> "FILTER"
      [] x = "sort" -> "SORT"
      [] x = "desc" -> "DESC"
      [] x = "asc" -> "ASC"
      [] OTHER -> x

Part(parts, i) == IF i <= Len(parts) THEN parts[i] ELSE ""

\* parts.slice(3).join(" "): the model's commands have at most one value token
ValueText(parts) == Part(parts, 4)

\* const numericVal = Number(val); finalVal = isNaN(numericVal) ? val : numericVal
FinalVal(val) == IF isNaN(ToNumber(Str(val))) THEN Str(val) ELSE ToNumber(Str(val))

\* the predicate of rows.filter(...)
FilterKeeps(row, col, op, finalVal) ==
    LET rowVal == Get(row, col)
    IN  IF rowVal = NA THEN FALSE
        ELSE IF rowVal.t = "number" /\ finalVal.t = "number"
                  /\ op \in {">", "<", "=", ">=", "<="}
        THEN CASE op = ">" -> rowVal.n > finalVal.n
               [] op = "<" -> rowVal.n < finalVal.n
               [] op = "=" -> rowVal.n = finalVal.n
               [] op = ">=" -> rowVal.n >= finalVal.n
               [] op = "<=" -> rowVal.n <= finalVal.n
        ELSE CASE op = "=" -> LooseEq(rowVal, finalVal)
               [] op = "contains" -> Includes(ToStr(rowVal), ToStr(finalVal))
               [] op = ">" -> Gt(rowVal, finalVal)
               [] op = "<" -> Lt(rowVal, finalVal)
               [] OTHER -> FALSE

RECURSIVE SelectSeq2(_, _, _)
\* q.filter(keep), keep a set of positions
SelectSeq2(q, keep, i) ==
    IF i > Len(q) THEN <<>>
    ELSE (IF i \in keep THEN <<q[i]>> ELSE <<>>) \o SelectSeq2(q, keep, i + 1)

FILTER(heapOf, rows, parts) ==
    LET col == Part(parts, 2)
        op == Part(parts, 3)
        finalVal == FinalVal(ValueText(parts))
    IN  SelectSeq2(rows, {i \in 1..Len(rows) : FilterKeeps(heapOf[rows[i]], col, op, finalVal)}, 1)

\* the comparator of SORT: a negative, zero or positive number
\* a comparator without the two NA lines
SortCompare_NoNA(rowA, rowB, col, direction) ==
    LET valA == Get(rowA, col)
        valB == Get(rowB, col)
    IN  IF valA = valB /\ ~isNaN(valA) THEN 0
        ELSE IF direction = "DESC" THEN (IF Lt(valA, valB) THEN 1 ELSE -1)
        ELSE (IF Gt(valA, valB) THEN 1 ELSE -1)

SortCompare(rowA, rowB, col, direction) ==
    LET valA == Get(rowA, col)
        valB == Get(rowB, col)
    IN  IF valA = NA THEN 1
        ELSE IF valB = NA THEN -1
        ELSE IF valA = valB /\ ~isNaN(valA) THEN 0
        ELSE IF direction = "DESC" THEN (IF Lt(valA, valB) THEN 1 ELSE -1)
        ELSE (IF Gt(valA, valB) THEN 1 ELSE -1)

(***************************************************************************)
(* [...rows].sort(compare): the engine's sort of an array shorter than 64, *)
(* one run found and put in ascending order, the rest inserted into it by  *)
(* binary insertion.                                                       *)
(***************************************************************************)
Cmp(heapOf, x, y, col, direction) == SortCompare(heapOf[x], heapOf[y], col, direction)

RECURSIVE RunLength(_, _, _, _, _, _)
\* the length of the run q starts with, n of whose elements are known to be in it
RunLength(heapOf, q, n, descending, col, direction) ==
    IF n = Len(q) THEN n
    ELSE LET order == Cmp(heapOf, q[n + 1], q[n], col, direction)
         IN  IF (descending /\ order >= 0) \/ (~descending /\ order < 0) THEN n
             ELSE RunLength(heapOf, q, n + 1, descending, col, direction)

RECURSIVE InsertionPoint(_, _, _, _, _, _, _)
\* binary search for pivot's place in q[left+1 .. right] (0-based left, right)
InsertionPoint(heapOf, q, pivot, left, right, col, direction) ==
    IF ~(left < right) THEN left
    ELSE LET mid == left + ((right - left) \div 2)
         IN  IF Cmp(heapOf, pivot, q[mid + 1], col, direction) < 0
             THEN InsertionPoint(heapOf, q, pivot, left, mid, col, direction)
             ELSE InsertionPoint(heapOf, q, pivot, mid + 1, right, col, direction)

RECURSIVE BinaryInsertionSort(_, _, _, _, _)
\* q[1..start] is sorted; insert q[start+1], ... one by one
BinaryInsertionSort(heapOf, q, start, col, direction) ==
    IF start >= Len(q) THEN q
    ELSE LET pivot == q[start + 1]
             at == InsertionPoint(heapOf, q, pivot, 0, start, col, direction)
         IN  BinaryInsertionSort(heapOf,
                                 InsertAt(RemoveAt(q, start), at, pivot),
                                 start + 1, col, direction)

ArraySort(heapOf, q, col, direction) ==
    IF Len(q) < 2 THEN q
    ELSE LET descending == Cmp(heapOf, q[2], q[1], col, direction) < 0
             run == RunLength(heapOf, q, 2, descending, col, direction)
             made == IF descending
                     THEN [i \in 1..Len(q) |-> IF i <= run THEN q[run + 1 - i] ELSE q[i]]
                     ELSE q
         IN  BinaryInsertionSort(heapOf, made, run, col, direction)

SORT(heapOf, rows, parts) ==
    ArraySort(heapOf, rows, Part(parts, 2),
              IF Part(parts, 3) # "" THEN Upper(Part(parts, 3)) ELSE "ASC")

\* parts.slice(1).join("").split(",").map(c => c.trim()): the model's SELECT
\* commands name their columns in one token
Columns(parts) ==
    LET list == Part(parts, 2)
    IN  CASE list = "a,b" -> {"a", "b"}
          [] list = "_id,a" -> {"_id", "a"}
          [] OTHER -> {list}

\* newRow = {}; cols.forEach(c => { if (row.hasOwnProperty(c)) newRow[c] = row[c] })
Project(row, cols) == [k \in Keys |-> IF k \in cols THEN row[k] ELSE Undefined]

SELECT(heapOf, rows, parts) ==
    [i \in 1..Len(rows) |-> Project(heapOf[rows[i]], Columns(parts))]

RECURSIVE Fold(_, _, _)
\* values.reduce(op, acc) for op in sum, min, max
Fold(q, acc, op) ==
    IF q = <<>> THEN acc
    ELSE Fold(Tail(q),
              CASE op = "sum" -> acc + Head(q)
                [] op = "min" -> (IF Head(q) < acc THEN Head(q) ELSE acc)
                [] op = "max" -> (IF Head(q) > acc THEN Head(q) ELSE acc),
              op)

\* count, min, max and sum; avg is sum / count
STATS(heapOf, rows, parts) ==
    LET col == Part(parts, 2)
        vals == [i \in 1..Len(rows) |-> Get(heapOf[rows[i]], col)]
        kept == SelectSeq2(vals, {i \in 1..Len(vals) :
                                     vals[i] # NA /\ ~isNaN(ToNumber(vals[i]))}, 1)
        values == [i \in 1..Len(kept) |-> ToNumber(kept[i]).n]
    IN  IF Len(values) = 0 THEN [count |-> 0, sum |-> 0, min |-> 0, max |-> 0, minmax |-> FALSE]
        ELSE [count |-> Len(values), sum |-> Fold(values, 0, "sum"),
              min |-> Fold(values, values[1], "min"),
              max |-> Fold(values, values[1], "max"), minmax |-> TRUE]

\* executeCommand(cmd, dataset): an array of existing objects ("refs"), an array
\* of new objects ("new"), the dataset array itself ("same"), or a STATS object
executeCommand(heapOf, parts, rows) ==
    LET command == Upper(Part(parts, 1))
        none == [kind |-> "same", refs |-> rows, new |-> <<>>, stats |-> NoStats]
    IN  CASE command = "FILTER" ->
                [none EXCEPT !.kind = "refs", !.refs = FILTER(heapOf, rows, parts)]
          [] command = "SORT" ->
                [none EXCEPT !.kind = "refs", !.refs = SORT(heapOf, rows, parts)]
          [] command = "SELECT" ->
                [none EXCEPT !.kind = "new", !.refs = <<>>, !.new = SELECT(heapOf, rows, parts)]
          [] command = "STATS" ->
                [none EXCEPT !.kind = "stats", !.refs = <<>>, !.stats = STATS(heapOf, rows, parts)]
          [] OTHER -> none

(***************************************************************************)
(* try { ... } catch (error) { postMessage({type: 'ERROR', ...}) }.        *)
(***************************************************************************)
Catch(s) == Post(s, Msg("ERROR", <<>>))

\* the handler up to the statement that throws, then the catch.  The statement
\* is the handler's first (the destructuring of the payload, payload.startsWith,
\* [...rowIndices]) or, in the ingestions, the decoding (JSON.parse) or the call
\* of ensureIds on the right of `masterData = ensureIds(rows)`, which throws
\* before the assignment is made: nothing has been assigned when it throws.
\* an ingestion that empties the arrays before it decodes
OnFault_AfterClear(s, type) ==
    IF type \in {"LOAD_FILE", "LOAD_EXISTING_DATA"}
    THEN Catch([s EXCEPT !.masterData = <<>>, !.currentData = <<>>])
    ELSE Catch(s)

OnFault(s, type) == Catch(s)

(***************************************************************************)
(* RUN_COMMAND.                                                            *)
(***************************************************************************)
\* payload.includes('= "NA"') || payload.includes('!= "NA"'): a token ending in
\* "=" followed by one starting with "NA" in quotes
isNAPresetFilter(parts) ==
    \E i \in 1..(Len(parts) - 1) :
        /\ parts[i] \in {"=", "==", "!=", "!==", ">=", "<="}
        /\ parts[i + 1] = "\"NA\""

\* payload.startsWith('EXPORT '); an empty second token stands for a text that
\* ends after the space, whose format payload.split(' ')[1] is empty
isExport(parts) == Len(parts) >= 2 /\ parts[1] = "EXPORT"

\* currentData.map(({_id, ...rest}) => rest)
dataToExport(s) == [i \in 1..Len(s.currentData) |->
                       [s.heap[s.currentData[i]] EXCEPT !["_id"] = Undefined]]

OnRUN_COMMAND(s, parts) ==
    IF isExport(parts)
    THEN (IF parts[2] = "" THEN s
          ELSE Post(s, [Msg("EXPORT_READY", dataToExport(s)) EXCEPT !.format = parts[2]]))
    ELSE
        LET fromMaster == isNAPresetFilter(parts)
            sourceData == IF fromMaster THEN s.masterData ELSE s.currentData
            result == executeCommand(s.heap, parts, sourceData)
        IN  CASE result.kind = "stats" ->
                    Post(s, [Msg("COMMAND_RESULT", <<>>) EXCEPT !.stats = result.stats])
              [] result.kind = "same" ->
                    PostView([s EXCEPT !.currentData = sourceData,
                                       !.aliased = fromMaster \/ s.aliased],
                             "DATA_UPDATED")
              [] result.kind = "refs" ->
                    PostView(NewCurrent(s, result.refs), "DATA_UPDATED")
              [] result.kind = "new" ->
                    LET a == Alloc(s, result.new)
                    IN  PostView(NewCurrent([s EXCEPT !.heap = a.heap], a.refs),
                                 "DATA_UPDATED")

(***************************************************************************)
(* The requests the model sends.                                           *)
(***************************************************************************)
Min(x, y) == IF x < y THEN x ELSE y

DataRows == <<MkRow(Undefined, Num(3), Str("x")),
              MkRow(Undefined, Num(1), Str("y")),
              MkRow(Undefined, NA, Str("z")),
              MkRow(Undefined, Num(2), Str("x"))>>

\* a file whose rows carry an _id column of their own, the same value twice
DupRows == <<MkRow(Str("k"), Num(3), Str("x")), MkRow(Str("k"), Num(1), Str("y"))>>

\* the decoded rows of the files: JSON.parse / XLSX.utils.sheet_to_json
Files == {SubSeq(DataRows, 1, Min(MaxRows, Len(DataRows))), DupRows}

\* a session's rows as IndexedDB holds them: identifiers of an earlier session
Snapshots == {<<MkRow(GenId(0, 0), Num(3), Str("w")), MkRow(GenId(0, 1), Num(1), Str("y"))>>,
              <<MkRow(Undefined, Num(1), Undefined), MkRow(GenId(0, 0), Num(3), Str("x"))>>}

Commands == {<<"SORT", "a", "ASC">>,
             <<"FILTER", "a", ">", "1">>,
             <<"FILTER", "a", "=", "\"NA\"">>,
             <<"SELECT", "a">>,
             <<"STATS", "a">>,
             <<"EXPORT", "json">>,
             <<"EXPORT", "">>,
             <<"TRIM", "a">>,
             <<"TRIM", "a", "=", "\"NA\"">>}

RowIndexes == -1..MaxRows
EditCols == {"b"}
EditValues == {Str("w")}
IndexLists == {<<0, 1>>, <<0, 0>>, <<-1, MaxRows + 1>>}

Req(type) == [type |-> type, rowIndex |-> -1, col |-> "", value |-> Undefined,
              rowIndices |-> <<>>, parts |-> <<>>, rows |-> <<>>, fault |-> ""]

\* requests whose handling throws, with the statement that throws
Faults == {[type |-> "LOAD_FILE", fault |-> "JSON.parse: the text is not JSON"],
           [type |-> "LOAD_FILE", fault |-> "ensureIds: a row is null"],
           [type |-> "RUN_COMMAND", fault |-> "payload.startsWith: the payload is not a string"],
           [type |-> "CELL_EDIT", fault |-> "const {rowIndex, col, value} = payload: no payload"],
           [type |-> "DELETE_ROWS", fault |-> "[...rowIndices]: not iterable"]}

(***************************************************************************)
(* The session store (IndexedDB), as the host leaves it at start: no        *)
(* record, nothing posted, nothing in flight.                              *)
(***************************************************************************)
NoSession == [exists |-> FALSE, hasData |-> FALSE, currentData |-> <<>>]

HostInit ==
    /\ posted = 0
    /\ historyState = [canUndo |-> FALSE, canRedo |-> FALSE]
    /\ toWorker = <<>>
    /\ toHost = <<>>
    /\ dbCalls = <<>>
    /\ transactions = <<>>
    /\ stored = NoSession

(***************************************************************************)
(* The state machine: one action per request type.                         *)
(***************************************************************************)
Init ==
    /\ heap = <<>>
    /\ masterData = <<>>
    /\ currentData = <<>>
    /\ aliased = FALSE
    /\ history = <<>>
    /\ historyIndex = -1
    /\ stamp = 0
    /\ viewOrigin = "master"
    /\ viewMutated = FALSE
    /\ request = Req("")
    /\ out = <<>>
    /\ steps = 0
    /\ HostInit

\* the worker's state after a handler has returned
Handled(req, s0, origin, mutated) ==
    LET s == Collect(s0)
    IN  /\ steps < MaxSteps
        /\ steps' = steps + 1
        /\ heap' = s.heap
        /\ masterData' = s.masterData
        /\ currentData' = s.currentData
        /\ aliased' = s.aliased
        /\ history' = s.history
        /\ historyIndex' = s.historyIndex
        /\ stamp' = s.stamp
        /\ out' = s.out
        /\ request' = req
        /\ viewOrigin' = origin
        /\ viewMutated' = mutated
        /\ UNCHANGED host

\* whether a handler that may return early took effect
Effective(s) == s.out # <<>>

LOAD_FILE ==
    \E rows \in Files :
        /\ stamp < MaxLoads
        /\ Handled([Req("LOAD_FILE") EXCEPT !.rows = rows], OnLOAD_FILE(St, rows),
                   "master", FALSE)

LOAD_EXISTING_DATA ==
    \E rows \in Snapshots :
        /\ stamp < MaxLoads
        /\ Handled([Req("LOAD_EXISTING_DATA") EXCEPT !.rows = rows],
                   OnLOAD_EXISTING_DATA(St, rows), "master", FALSE)

\* what the command makes of viewOrigin
OriginAfter(parts) ==
    LET command == Upper(Part(parts, 1))
    IN  IF isExport(parts) \/ command = "STATS" THEN viewOrigin
        ELSE IF command = "SELECT" THEN "select"
        ELSE IF isNAPresetFilter(parts) THEN "master"
        ELSE viewOrigin

MutatedAfter(parts) ==
    IF isExport(parts) \/ Upper(Part(parts, 1)) = "STATS" THEN viewMutated
    ELSE IF isNAPresetFilter(parts) THEN FALSE
    ELSE viewMutated

RUN_COMMAND ==
    \E parts \in Commands :
        Handled([Req("RUN_COMMAND") EXCEPT !.parts = parts], OnRUN_COMMAND(St, parts),
                OriginAfter(parts), MutatedAfter(parts))

RESET == Handled(Req("RESET"), OnRESET(St), "master", FALSE)

CELL_EDIT ==
    \E rowIndex \in RowIndexes, col \in EditCols, value \in EditValues :
        Handled([Req("CELL_EDIT") EXCEPT !.rowIndex = rowIndex, !.col = col, !.value = value],
                OnCELL_EDIT(St, rowIndex, col, value), viewOrigin, viewMutated)

DELETE_ROW ==
    \E rowIndex \in RowIndexes :
        LET s == OnDELETE_ROW(St, rowIndex)
        IN  Handled([Req("DELETE_ROW") EXCEPT !.rowIndex = rowIndex], s,
                    viewOrigin, viewMutated \/ Effective(s))

DELETE_ROWS ==
    \E rowIndices \in IndexLists :
        LET s == OnDELETE_ROWS(St, rowIndices)
        IN  Handled([Req("DELETE_ROWS") EXCEPT !.rowIndices = rowIndices], s,
                    viewOrigin, viewMutated \/ Effective(s))

UNDO ==
    LET s == OnUNDO(St)
    IN  Handled(Req("UNDO"), s, viewOrigin, viewMutated \/ Effective(s))

REDO ==
    LET s == OnREDO(St)
    IN  Handled(Req("REDO"), s, viewOrigin, viewMutated \/ Effective(s))

EXPORT_RAW_JSON ==
    Handled(Req("EXPORT_RAW_JSON"), OnEXPORT_RAW_JSON(St), viewOrigin, viewMutated)

\* a request whose handling throws
FAULT ==
    \E f \in Faults :
        Handled([Req(f.type) EXCEPT !.fault = f.fault], OnFault(St, f.type),
                viewOrigin, viewMutated)

Next ==
    \/ LOAD_FILE
    \/ LOAD_EXISTING_DATA
    \/ RUN_COMMAND
    \/ RESET
    \/ CELL_EDIT
    \/ DELETE_ROW
    \/ DELETE_ROWS
    \/ UNDO
    \/ REDO
    \/ EXPORT_RAW_JSON
    \/ FAULT

Spec == Init /\ [][Next]_vars

(***************************************************************************)
(* What the claims speak of.                                               *)
(***************************************************************************)
CanUndo(s) == s.historyIndex >= 0
CanRedo(s) == s.historyIndex < Len(s.history) - 1

\* the rows of the arrays, the objects' cells, the log and the cursor
SameState(s1, s2) ==
    /\ s1.masterData = s2.masterData
    /\ s1.currentData = s2.currentData
    /\ Rows(s1, s1.masterData) = Rows(s2, s2.masterData)
    /\ Rows(s1, s1.currentData) = Rows(s2, s2.currentData)
    /\ s1.history = s2.history
    /\ s1.historyIndex = s2.historyIndex

\* the payload of the last message of the given type a handler posted
Payload(s, type) ==
    LET at == {i \in 1..Len(s.out) : s.out[i].type = type}
    IN  s.out[CHOOSE i \in at : \A j \in at : j <= i].rows

\* the last request was handled without a fault
WellFormed == request.fault = ""

Took(type) == request.type = type /\ WellFormed /\ out # <<>>

-----------------------------------------------------------------------------
(* C1: reference propagation.  When the view was made from master's rows by *)
(* LOAD, RESET, FILTER and SORT, a CELL_EDIT at a valid view index has set  *)
(* the column of that very row in master: the row is in master, it holds    *)
(* the new value under its identifier, and a RESET or a snapshot            *)
(* (EXPORT_RAW_JSON) made now shows the new value for it.                   *)
C1_EditReachesMaster ==
    (Took("CELL_EDIT") /\ viewOrigin = "master" /\ ~viewMutated) =>
        LET rowObj == currentData[request.rowIndex + 1]
            at == {k \in 1..Len(masterData) : masterData[k] = rowObj}
            snapshot == Payload(OnEXPORT_RAW_JSON(St), "RAW_JSON_EXPORT")
            shown == Payload(OnRESET(St), "DATA_UPDATED")
        IN  /\ at # {}
            /\ \A k \in at :
                  /\ snapshot[k][request.col] = request.value
                  /\ snapshot[k]["_id"] = heap[rowObj]["_id"]
                  /\ shown[k][request.col] = request.value

\* an edit through a filtered or sorted view has reached master
C1_Witness ==
    /\ Took("CELL_EDIT") /\ viewOrigin = "master" /\ ~viewMutated
    /\ currentData # masterData
    /\ \E k \in 1..Len(masterData) :
          /\ masterData[k] = currentData[request.rowIndex + 1]
          /\ heap[masterData[k]][request.col] = request.value

(* C2: when the current view was produced by SELECT, a CELL_EDIT at a valid *)
(* view index changes no cell of any row of master.                         *)
C2_SelectEditStaysDetached ==
    viewOrigin = "select" =>
        \A rowIndex \in RowIndexes, col \in EditCols, value \in EditValues :
            LET s == OnCELL_EDIT(St, rowIndex, col, value)
            IN  Rows(s, s.masterData) = Rows(St, masterData)

(* C3: the history law.  Where REDO is possible, REDO then UNDO restores    *)
(* master, the view and the cursor; where UNDO is possible, UNDO then REDO  *)
(* does.                                                                    *)
C3_RedoUndoAndUndoRedo ==
    /\ CanRedo(St) => SameState(OnUNDO(OnREDO(St)), St)
    /\ CanUndo(St) => SameState(OnREDO(OnUNDO(St)), St)

\* the scenario of C4: rows just ingested that carry no identifier of their
\* own, the first with b = "x"
C4_Ingested ==
    /\ Took("LOAD_FILE")
    /\ Len(request.rows) > 0
    /\ \A i \in 1..Len(request.rows) : request.rows[i]["_id"] = Undefined
    /\ request.rows[1]["b"] = Str("x")

C4_Final ==
    OnUNDO(OnUNDO(OnDELETE_ROW(OnCELL_EDIT(St, 0, "b", Str("z")), 0)))

(* C4 as stated: after CELL_EDIT (row 0, b) from x to z, DELETE_ROW 0, UNDO, *)
(* UNDO, the final state equals the pre-edit state (master and view).       *)
C4_FinalStateEqualsPreEdit ==
    C4_Ingested =>
        /\ C4_Final.masterData = masterData
        /\ C4_Final.currentData = currentData
        /\ Rows(C4_Final, C4_Final.masterData) = Rows(St, masterData)

(* C4 as amended: after the four requests master is the pre-edit master     *)
(* (the same rows in the same order, b = x on that row again), and the row  *)
(* is in the view again, as its last row.                                   *)
C4_MasterRestoredRowAppended ==
    C4_Ingested =>
        LET rowObj == currentData[1]
            final == C4_Final
        IN  /\ final.masterData = masterData
            /\ Rows(final, final.masterData) = Rows(St, masterData)
            /\ final.heap[rowObj]["b"] = Str("x")
            /\ final.currentData = Append(Tail(currentData), rowObj)

\* the scenario happens on a dataset of more than one row: the row comes back
\* in master's first place and in the view's last
C4_Witness ==
    /\ C4_Ingested
    /\ Len(masterData) > 1
    /\ C4_Final.currentData # currentData
    /\ C4_Final.masterData[1] = currentData[1]
    /\ OnCELL_EDIT(St, 0, "b", Str("z")).heap[currentData[1]]["b"] = Str("z")

(* C5: whenever the current view was not produced by SELECT, every row of   *)
(* the view is a row (the same object) that is in master.                   *)
C5_ViewRowsAreMasterRows ==
    viewOrigin # "select" => Range(currentData) \subseteq Range(masterData)

\* the identifiers deleted: recorded by a deletion at or before the cursor, and
\* on no row of master
DeletedIds ==
    {id \in UNION {{history[i].items[j].rowId : j \in 1..Len(history[i].items)} :
                      i \in 1..(historyIndex + 1)} :
        id # Undefined /\ FindIndex(St, masterData, id) = -1}

(* C6: deleting an identifier twice is idempotent.  A DELETE_ROW, or a      *)
(* DELETE_ROWS of one index, that resolves to an identifier already deleted *)
(* changes neither master nor the view and records nothing.                 *)
C6_SecondDeleteIsNoOp ==
    \A rowIndex \in RowIndexes :
        (InView(St, rowIndex) /\ heap[currentData[rowIndex + 1]]["_id"] \in DeletedIds) =>
            /\ SameState(OnDELETE_ROW(St, rowIndex), St)
            /\ SameState(OnDELETE_ROWS(St, <<rowIndex>>), St)

(* C7: after a successful LOAD_FILE the history is empty: the cursor is     *)
(* before the first entry and neither UNDO nor REDO is possible.            *)
C7_LoadFileClearsHistory ==
    Took("LOAD_FILE") =>
        /\ history = <<>>
        /\ historyIndex = -1
        /\ ~CanUndo(St) /\ ~CanRedo(St)

\* the cell edit under the cursor (UNDO's) or after it (REDO's)
EditAt(i) == i >= 1 /\ i <= Len(history) /\ history[i].type = "CELL_EDIT"

\* the row an identifier names in master is the one a lookup by identifier
\* yields; the other cells of master are left as they are
SetsOnlyById(s, action, v) ==
    LET k == FindIndex(St, masterData, action.rowId)
    IN  /\ s.masterData = masterData
        /\ \A i \in 1..Len(masterData), c \in Keys :
              s.heap[masterData[i]][c] =
                  IF i = k + 1 /\ c = action.col THEN v ELSE heap[masterData[i]][c]

(* C8: UNDO of a recorded cell edit puts the old value on the row of master *)
(* that has the recorded identifier, whatever the view holds (also when the *)
(* row is not in the view), and changes nothing else in master; REDO does   *)
(* the same with the new value.                                             *)
C8_UndoRedoEditByIdentifier ==
    /\ EditAt(historyIndex + 1) =>
          SetsOnlyById(OnUNDO(St), history[historyIndex + 1],
                       history[historyIndex + 1].oldValue)
    /\ EditAt(historyIndex + 2) =>
          SetsOnlyById(OnREDO(St), history[historyIndex + 2],
                       history[historyIndex + 2].newValue)

\* an undo has restored the old value on a row of master that the view, filtered
\* since the edit, does not show
C8_Witness ==
    /\ Took("UNDO")
    /\ EditAt(historyIndex + 2)
    /\ LET action == history[historyIndex + 2]
           k == FindIndex(St, masterData, action.rowId)
       IN  /\ k # -1
           /\ masterData[k + 1] \notin Range(currentData)
           /\ heap[masterData[k + 1]][action.col] = action.oldValue
           /\ action.oldValue # action.newValue

(* C9: no two rows of master share an identifier.                           *)
C9_MasterIdsUnique ==
    \A i, j \in 1..Len(masterData) :
        i # j => heap[masterData[i]]["_id"] # heap[masterData[j]]["_id"]

\* a value that is missing: NA, undefined or the empty string
Missing(v) == v = NA \/ v = Undefined \/ v = Str("")

(* C10: FILTER col = "NA" and FILTER col != "NA" partition their source:    *)
(* the first holds the rows whose value is missing, the second the rows     *)
(* whose value is present, and every source row is in exactly one.          *)
C10_NAFiltersPartition ==
    \A col \in {"a", "b"} :
        LET isNA == FILTER(heap, masterData, <<"FILTER", col, "=", "\"NA\"">>)
            notNA == FILTER(heap, masterData, <<"FILTER", col, "!=", "\"NA\"">>)
        IN  /\ Range(isNA) \cap Range(notNA) = {}
            /\ Range(isNA) \cup Range(notNA) = Range(masterData)
            /\ \A r \in Range(isNA) : Missing(heap[r][col])
            /\ \A r \in Range(notNA) : ~Missing(heap[r][col])

-----------------------------------------------------------------------------
(***************************************************************************)
(* The command engine on its own: executeCommand applied to collections   *)
(* drawn from a bounded set, as the worker holds them after an ingestion. *)
(***************************************************************************)
EngineRows == 3        \* rows of the collections the engine is given

\* the values of column a: numbers, a text, the missing marker, no property,
\* the empty text
EngineValues == {Num(1), Num(3), Str("x"), NA, Undefined, Str("")}

\* column b tells the rows apart
EngineLabels == <<"x", "y", "z", "w", "k">>

EngineCollections ==
    UNION {{[i \in 1..n |-> MkRow(Undefined, keys[i], Str(EngineLabels[i]))] :
               keys \in [1..n -> EngineValues]} : n \in 1..EngineRows}

EngineCommands == {<<"SORT", "a", "ASC">>,
                   <<"SORT", "a", "DESC">>,
                   <<"sort", "a">>,
                   <<"FILTER", "a", ">", "1">>,
                   <<"STATS", "a">>}

\* the worker as constructed
Fresh == [heap |-> <<>>, masterData |-> <<>>, currentData |-> <<>>, aliased |-> FALSE,
          history |-> <<>>, historyIndex |-> -1, stamp |-> 0, out |-> <<>>]

\* the worker holding one of the collections
EngineInit ==
    \E rows \in EngineCollections :
        LET s == OnLOAD(Fresh, rows)
        IN  /\ heap = s.heap
            /\ masterData = s.masterData
            /\ currentData = s.currentData
            /\ aliased = s.aliased
            /\ history = s.history
            /\ historyIndex = s.historyIndex
            /\ stamp = s.stamp
            /\ viewOrigin = "master"
            /\ viewMutated = FALSE
            /\ request = Req("")
            /\ out = <<>>
            /\ steps = 0
            /\ HostInit

EXECUTE ==
    \E parts \in EngineCommands :
        Handled([Req("RUN_COMMAND") EXCEPT !.parts = parts], OnRUN_COMMAND(St, parts),
                OriginAfter(parts), MutatedAfter(parts))

EngineNext ==
    \/ EXECUTE
    \/ RESET

SpecEngine == EngineInit /\ [][EngineNext]_vars

\* res holds the elements of src, each as often as src does
IsPermutation(src, res) ==
    /\ Len(res) = Len(src)
    /\ \A r \in Range(src) \cup Range(res) :
          Cardinality({i \in 1..Len(src) : src[i] = r})
              = Cardinality({i \in 1..Len(res) : res[i] = r})

PositionIn(q, r) == CHOOSE i \in 1..Len(q) : q[i] = r

\* rows of equal key keep their relative order
KeepsOrderOfEquals(heapOf, src, res, col) ==
    \A i, j \in 1..Len(src) :
        (i < j /\ Get(heapOf[src[i]], col) = Get(heapOf[src[j]], col)) =>
            PositionIn(res, src[i]) < PositionIn(res, src[j])

SortCommands == {parts \in EngineCommands : Upper(parts[1]) = "SORT"}

(* C11: SORT is stable.  For every collection, column and direction the     *)
(* result of SORT is a permutation of the source rows (the same references) *)
(* and two rows with equal sort-key values, missing ones included, are in   *)
(* the result in the order they have in the source.                         *)
C11_SortIsStable ==
    \A parts \in SortCommands :
        LET res == SORT(heap, currentData, parts)
        IN  /\ IsPermutation(currentData, res)
            /\ KeepsOrderOfEquals(heap, currentData, res, parts[2])


\* the scenario's collection [{a:1,b:x},{a:NA,b:y},{a:3,b:z}] is the master, and
\* the one request handled so far is the command, run on the original
C12_Ran(parts) ==
    /\ steps = 1
    /\ request.type = "RUN_COMMAND" /\ request.parts = parts
    /\ [i \in 1..Len(masterData) |-> heap[masterData[i]]["a"]] = <<Num(1), NA, Num(3)>>
    /\ [i \in 1..Len(masterData) |-> heap[masterData[i]]["b"]] = <<Str("x"), Str("y"), Str("z")>>

(* C12: on rows [{a:1,b:x},{a:NA,b:y},{a:3,b:z}], FILTER a > 1 yields only   *)
(* the row with a = 3; SORT a ASC yields the rows in the order a = 1, a = 3, *)
(* a = NA; STATS a yields count 2, min 1, max 3, sum 4 and avg 2 (avg is    *)
(* sum / count).                                                            *)
C12_ScenarioResults ==
    /\ C12_Ran(<<"FILTER", "a", ">", "1">>) =>
          /\ currentData = <<masterData[3]>>
          /\ out = <<Msg("DATA_UPDATED", <<heap[masterData[3]]>>)>>
    /\ C12_Ran(<<"SORT", "a", "ASC">>) =>
          /\ currentData = <<masterData[1], masterData[3], masterData[2]>>
          /\ out = <<Msg("DATA_UPDATED",
                         <<heap[masterData[1]], heap[masterData[3]], heap[masterData[2]]>>)>>
    /\ C12_Ran(<<"STATS", "a">>) =>
          /\ Len(out) = 1 /\ out[1].type = "COMMAND_RESULT"
          /\ out[1].stats.count = 2
          /\ out[1].stats.minmax /\ out[1].stats.min = 1 /\ out[1].stats.max = 3
          /\ out[1].stats.sum = 4
          /\ out[1].stats.sum = 2 * out[1].stats.count

\* SORT a ASC has run on the scenario's rows and put the NA row last
C12_Witness ==
    /\ C12_Ran(<<"SORT", "a", "ASC">>)
    /\ [i \in 1..Len(currentData) |-> heap[currentData[i]]["a"]] = <<Num(1), Num(3), NA>>


(* C13: every RUN_COMMAND request produces exactly one response message:    *)
(* EXPORT_READY for EXPORT, COMMAND_RESULT when the command yields an       *)
(* aggregate (STATS), DATA_UPDATED carrying the new current view otherwise. *)
C13_OneResponsePerCommand ==
    (request.type = "RUN_COMMAND" /\ WellFormed) =>
        /\ Len(out) = 1
        /\ out[1].type = (IF isExport(request.parts) THEN "EXPORT_READY"
                          ELSE IF Upper(Part(request.parts, 1)) = "STATS" THEN "COMMAND_RESULT"
                          ELSE "DATA_UPDATED")
        /\ out[1].type = "DATA_UPDATED" => out[1].rows = Rows(St, currentData)


\* how many of the messages are of the given type
CountOf(q, type) == Cardinality({i \in 1..Len(q) : q[i].type = type})

\* the worker's data and history, before and after a request
Engine == <<heap, masterData, currentData, history, historyIndex>>

Mutations == {"CELL_EDIT", "DELETE_ROW", "DELETE_ROWS", "UNDO", "REDO"}

(* C14: a CELL_EDIT, DELETE_ROW, DELETE_ROWS, UNDO or REDO that takes       *)
(* effect posts exactly one SESSION_SAVE_NEEDED and one that is a no-op     *)
(* posts none; a LOAD_FILE posts exactly one; every other request (the      *)
(* queries) posts none.                                                     *)
C14_OneSaveSignalPerMutation ==
    [][LET n == CountOf(out', "SESSION_SAVE_NEEDED")
       IN  CASE request'.type \in Mutations -> n = (IF Engine' # Engine THEN 1 ELSE 0)
             [] request'.type = "LOAD_FILE" /\ WellFormed' -> n = 1
             [] OTHER -> n = 0]_vars

\* a DELETE_ROWS that removed two rows has signalled once
C14_Witness ==
    /\ Took("DELETE_ROWS")
    /\ Len(history[historyIndex + 1].items) = 2
    /\ CountOf(out, "SESSION_SAVE_NEEDED") = 1


(* C15: a DELETE_ROW, DELETE_ROWS, UNDO or REDO that takes effect is        *)
(* answered with a DATA_UPDATED message whose payload is the current view   *)
(* after the operation.                                                     *)
C15_AnsweredWithDataUpdated ==
    (request.type \in {"DELETE_ROW", "DELETE_ROWS", "UNDO", "REDO"} /\ WellFormed
        /\ out # <<>>) =>
        /\ CountOf(out, "DATA_UPDATED") = 1
        /\ Payload([out |-> out], "DATA_UPDATED") = Rows(St, currentData)


\* the HISTORY_STATE messages among those posted
HistoryStates(q) == SelectSeq(q, LAMBDA m : m.type = "HISTORY_STATE")

\* one HISTORY_STATE, telling the cursor's place in the log as it is now
TellsHistoryState(q) ==
    /\ Len(HistoryStates(q)) = 1
    /\ HistoryStates(q)[1].canUndo = (historyIndex >= 0)
    /\ HistoryStates(q)[1].canRedo = (historyIndex < Len(history) - 1)

(* C16 as stated: every UNDO and every REDO request is answered with a      *)
(* HISTORY_STATE message in which canUndo is true exactly when the cursor   *)
(* is at or after the first entry and canRedo exactly when it is before the *)
(* last.                                                                    *)
C16_EveryUndoRedoAnswered ==
    request.type \in {"UNDO", "REDO"} => TellsHistoryState(out)

(* C16 as amended: an UNDO with something to undo, and a REDO with          *)
(* something to redo, is answered with exactly one HISTORY_STATE message    *)
(* whose canUndo and canRedo tell the cursor's place after the operation;   *)
(* an UNDO or REDO with nothing to undo or redo posts no message.           *)
C16_EffectiveUndoRedoAnswered ==
    [][/\ request'.type = "UNDO" =>
             IF historyIndex >= 0 THEN TellsHistoryState(out)' ELSE out' = <<>>
       /\ request'.type = "REDO" =>
             IF historyIndex < Len(history) - 1 THEN TellsHistoryState(out)'
             ELSE out' = <<>>]_vars

\* an UNDO in the middle of the log: both flags are true
C16_Witness ==
    /\ Took("UNDO")
    /\ TellsHistoryState(out)
    /\ HistoryStates(out)[1].canUndo /\ HistoryStates(out)[1].canRedo


\* the row objects of the deletions in force (recorded at or before the cursor)
DeletedRows ==
    UNION {{history[i].items[j].rowObj : j \in 1..Len(history[i].items)} :
              i \in 1..(historyIndex + 1)}

\* RESET makes the view master's rows, in master's order and by reference (the
\* cells are the ones master's rows hold, edits included), posts it as
\* DATA_UPDATED, and leaves master and the history alone
C17_ResetMirrorsMaster ==
    LET s == OnRESET(St)
    IN  /\ s.currentData = masterData
        /\ s.masterData = masterData
        /\ s.heap = heap
        /\ s.history = history /\ s.historyIndex = historyIndex
        /\ s.out = <<Msg("DATA_UPDATED", Rows(St, masterData))>>

\* the view after RESET holds none of the deleted rows
C17_ResetShowsNoDeletedRow ==
    Range(OnRESET(St).currentData) \cap DeletedRows = {}

(* C17: after RESET the current view holds exactly the rows of master, in   *)
(* master's order and by reference, so it shows every edit made so far and  *)
(* none of the deleted rows; the request is answered with DATA_UPDATED      *)
(* carrying that view; master and the history are unchanged.                *)
C17_Reset ==
    /\ C17_ResetMirrorsMaster
    /\ C17_ResetShowsNoDeletedRow


\* the index is outside the view: negative, or not below its length
OutOfView(rowIndex) == rowIndex < 0 \/ rowIndex >= Len(currentData)

\* a request that does nothing: data, history and cursor as before, no message
\* (no ERROR either)
NoOp == Engine' = Engine /\ aliased' = aliased /\ out' = <<>>

(* C18: a CELL_EDIT or DELETE_ROW whose view index is outside the current   *)
(* view (negative or at or past its length), and a DELETE_ROWS none of      *)
(* whose indices is in the view, is a no-op: master, the view, the history  *)
(* and the cursor are unchanged, and no error is raised.                    *)
C18_OutOfRangeIsNoOp ==
    [][/\ (request'.type \in {"CELL_EDIT", "DELETE_ROW"} /\ WellFormed'
             /\ OutOfView(request'.rowIndex))
             => NoOp
       /\ (request'.type = "DELETE_ROWS" /\ WellFormed'
             /\ \A i \in 1..Len(request'.rowIndices) : OutOfView(request'.rowIndices[i]))
             => NoOp]_vars

\* a DELETE_ROW with a negative index has left a view that has rows, and a
\* history that has entries, as they were
C18_Witness ==
    /\ request.type = "DELETE_ROW" /\ WellFormed /\ request.rowIndex < 0
    /\ out = <<>>
    /\ currentData # <<>> /\ history # <<>>


Recognized(parts) ==
    \/ Upper(Part(parts, 1)) \in {"FILTER", "SORT", "SELECT", "STATS"}
    \/ isExport(parts)

(* C20: a RUN_COMMAND whose verb is not recognized returns the source       *)
(* collection unchanged: afterwards the current view has the same rows in   *)
(* the same order as before, and master and the history are unchanged.      *)
C20_UnknownVerbChangesNothing ==
    \A parts \in Commands :
        ~Recognized(parts) =>
            LET s == OnRUN_COMMAND(St, parts)
            IN  /\ s.currentData = currentData
                /\ s.masterData = masterData
                /\ s.heap = heap
                /\ s.history = history /\ s.historyIndex = historyIndex

-----------------------------------------------------------------------------
(***************************************************************************)
(* The host, the worker and the session store together: the user's        *)
(* actions post requests, the worker handles them in the order posted,     *)
(* the host handles the worker's messages in the order posted, and the     *)
(* calls of saveSession / updateSessionData await initDB() and then run    *)
(* one readwrite transaction each.                                         *)
(***************************************************************************)
MaxPosted == 4         \* requests the user's actions post

\* the file the user uploads
Uploads == {SubSeq(DataRows, 1, Min(MaxRows, Len(DataRows)))}

\* the requests of handleCellUpdate, handleDeleteRow, handleDeleteRows,
\* handleUndo and handleRedo
UserMutations ==
    {[Req("CELL_EDIT") EXCEPT !.rowIndex = 0, !.col = "b", !.value = Str("w")],
     [Req("DELETE_ROW") EXCEPT !.rowIndex = 0],
     [Req("DELETE_ROWS") EXCEPT !.rowIndices = <<0, 1>>],
     Req("UNDO"),
     Req("REDO")}

\* a worker without the EXPORT_RAW_JSON branch
OnMessage_NoSnapshot(s, req) ==
    CASE req.type = "LOAD_FILE" -> OnLOAD_FILE(s, req.rows)
      [] req.type = "CELL_EDIT" -> OnCELL_EDIT(s, req.rowIndex, req.col, req.value)
      [] req.type = "DELETE_ROW" -> OnDELETE_ROW(s, req.rowIndex)
      [] req.type = "DELETE_ROWS" -> OnDELETE_ROWS(s, req.rowIndices)
      [] req.type = "UNDO" -> OnUNDO(s)
      [] req.type = "REDO" -> OnREDO(s)
      [] OTHER -> s

\* self.onmessage: the handler of the request's type
OnMessage(s, req) ==
    CASE req.type = "LOAD_FILE" -> OnLOAD_FILE(s, req.rows)
      [] req.type = "CELL_EDIT" -> OnCELL_EDIT(s, req.rowIndex, req.col, req.value)
      [] req.type = "DELETE_ROW" -> OnDELETE_ROW(s, req.rowIndex)
      [] req.type = "DELETE_ROWS" -> OnDELETE_ROWS(s, req.rowIndices)
      [] req.type = "UNDO" -> OnUNDO(s)
      [] req.type = "REDO" -> OnREDO(s)
      [] req.type = "EXPORT_RAW_JSON" -> OnEXPORT_RAW_JSON(s)
      [] OTHER -> s

\* the messages on which worker.onmessage posts a request, calls the store or
\* sets canUndo / canRedo; on the others it sets display state only
Persists(m) == m.type \in {"SESSION_SAVE_NEEDED", "RAW_JSON_EXPORT", "HISTORY_STATE"}

\* a call of saveSession(buffer, fileName) or updateSessionData(currentData)
DbCall(kind, currentData_) == [kind |-> kind, currentData |-> currentData_]

\* open requests that complete in any order
NextToOpen_AnyOrder(calls) == 1..Len(calls)

\* IndexedDB completes the open requests of one database in the order made
NextToOpen(calls) == IF calls = <<>> THEN {} ELSE {1}

\* the record after the transaction of the call has run
\* saveSession: put {fileBuffer, fileName, currentData: null, timestamp}
\* updateSessionData: if (data) { data.currentData = currentData; put(data) }
RunTransaction(record, call) ==
    IF call.kind = "saveSession"
    THEN [exists |-> TRUE, hasData |-> FALSE, currentData |-> <<>>]
    ELSE IF record.exists
         THEN [record EXCEPT !.hasData = TRUE, !.currentData = call.currentData]
         ELSE record

worker == <<heap, masterData, currentData, aliased, history, historyIndex,
            stamp, viewOrigin, viewMutated, request, out, steps>>

\* handleFileUpload, reader.onload: saveSession(buffer, file.name), then
\* postMessage LOAD_FILE
HandleFileUpload ==
    \E rows \in Uploads :
        /\ posted = 0
        /\ posted' = posted + 1
        /\ dbCalls' = Append(dbCalls, DbCall("saveSession", <<>>))
        /\ toWorker' = Append(toWorker, [Req("LOAD_FILE") EXCEPT !.rows = rows])
        /\ UNCHANGED <<worker, historyState, toHost, transactions, stored>>

\* an edit, a deletion, an undo or a redo in the grid
HandleMutation ==
    \E req \in UserMutations :
        /\ posted > 0
        /\ posted < MaxPosted
        /\ req.type = "UNDO" => historyState.canUndo
        /\ req.type = "REDO" => historyState.canRedo
        /\ posted' = posted + 1
        /\ toWorker' = Append(toWorker, req)
        /\ UNCHANGED <<worker, historyState, toHost, dbCalls, transactions, stored>>

\* the worker takes the oldest request
WorkerReceives ==
    /\ toWorker # <<>>
    /\ LET req == Head(toWorker)
           s0 == OnMessage(St, req)
           s == Collect(s0)
       IN  /\ heap' = s.heap
           /\ masterData' = s.masterData
           /\ currentData' = s.currentData
           /\ aliased' = s.aliased
           /\ history' = s.history
           /\ historyIndex' = s.historyIndex
           /\ stamp' = s.stamp
           /\ out' = s.out
           /\ request' = req
           /\ steps' = steps + 1
           /\ viewOrigin' = IF req.type = "LOAD_FILE" THEN "master" ELSE viewOrigin
           /\ viewMutated' = IF req.type = "LOAD_FILE" THEN FALSE
                             ELSE IF req.type \in {"DELETE_ROW", "DELETE_ROWS", "UNDO", "REDO"}
                                  THEN viewMutated \/ Effective(s)
                                  ELSE viewMutated
           /\ toWorker' = Tail(toWorker)
           /\ toHost' = toHost \o SelectSeq(s.out, Persists)
    /\ UNCHANGED <<posted, historyState, dbCalls, transactions, stored>>

\* worker.onmessage: SESSION_SAVE_NEEDED asks for the raw rows,
\* RAW_JSON_EXPORT hands them to updateSessionData, HISTORY_STATE sets
\* canUndo / canRedo
HostReceives ==
    /\ toHost # <<>>
    /\ toHost' = Tail(toHost)
    /\ CASE Head(toHost).type = "SESSION_SAVE_NEEDED" ->
                /\ toWorker' = Append(toWorker, Req("EXPORT_RAW_JSON"))
                /\ UNCHANGED <<dbCalls, historyState>>
         [] Head(toHost).type = "RAW_JSON_EXPORT" ->
                /\ dbCalls' = Append(dbCalls, DbCall("updateSessionData", Head(toHost).rows))
                /\ UNCHANGED <<toWorker, historyState>>
         [] OTHER ->
                /\ historyState' = [canUndo |-> Head(toHost).canUndo,
                                    canRedo |-> Head(toHost).canRedo]
                /\ UNCHANGED <<toWorker, dbCalls>>
    /\ UNCHANGED <<worker, posted, transactions, stored>>

\* await initDB() returns: the call creates its readwrite transaction
DbOpens ==
    \E i \in NextToOpen(dbCalls) :
        /\ transactions' = Append(transactions, dbCalls[i])
        /\ dbCalls' = RemoveAt(dbCalls, i - 1)
        /\ UNCHANGED <<worker, posted, historyState, toWorker, toHost, stored>>

\* readwrite transactions on the one store run in the order created
DbRuns ==
    /\ transactions # <<>>
    /\ stored' = RunTransaction(stored, Head(transactions))
    /\ transactions' = Tail(transactions)
    /\ UNCHANGED <<worker, posted, historyState, toWorker, toHost, dbCalls>>

SyncNext ==
    \/ HandleFileUpload
    \/ HandleMutation
    \/ WorkerReceives
    \/ HostReceives
    \/ DbOpens
    \/ DbRuns

SpecSync == Init /\ [][SyncNext]_vars

\* every worker message and every transaction has completed
Quiescent ==
    /\ toWorker = <<>>
    /\ toHost = <<>>
    /\ dbCalls = <<>>
    /\ transactions = <<>>

(* C21: auto-sync.  After a file upload followed by mutations, once every   *)
(* worker message and every IndexedDB transaction has completed, the stored *)
(* session's currentData is the worker's master collection, identifiers     *)
(* included, whatever the interleaving of the saveSession transaction of    *)
(* the upload and the updateSessionData transactions.                       *)
C21_AutoSync ==
    (Quiescent /\ posted > 0) =>
        /\ stored.exists
        /\ (history # <<>>) =>
              /\ stored.hasData
              /\ stored.currentData = Rows(St, masterData)
        /\ stored.hasData => stored.currentData = Rows(St, masterData)

\* an edit, a deletion and an undo have all reached the store
C21_Witness ==
    /\ Quiescent
    /\ posted = MaxPosted
    /\ Len(history) = 2
    /\ historyIndex = 0
    /\ stored.hasData
    /\ stored.currentData = Rows(St, masterData)
    /\ \E i \in 1..Len(masterData) : heap[masterData[i]]["b"] = Str("w")

-----------------------------------------------------------------------------
(***************************************************************************)
(* The worker with a log at or near its capacity: a file has been loaded,  *)
(* the first row's cell edited again and again, and some edits undone.     *)
(***************************************************************************)
MaxShort == 2          \* how many entries the log is short of MAX_HISTORY at most
MaxUndone == 2         \* how many of the edits have been undone at most

RECURSIVE Edits(_, _)
\* n CELL_EDIT requests on the first row of the view
Edits(s, n) ==
    IF n = 0 THEN s
    ELSE LET value == IF n % 2 = 0 THEN Str("w") ELSE Str("y")
             edited == [OnCELL_EDIT(s, 0, "b", value) EXCEPT !.out = <<>>]
         IN  IF edited.historyIndex >= 0 THEN Edits(edited, n - 1) ELSE edited

RECURSIVE Undos(_, _)
\* n UNDO requests
Undos(s, n) ==
    IF n = 0 THEN s
    ELSE LET undone == [OnUNDO(s) EXCEPT !.out = <<>>]
         IN  IF undone.historyIndex >= -1 THEN Undos(undone, n - 1) ELSE undone

HistoryInit ==
    \E rows \in Uploads, short \in 0..MaxShort, undone \in 0..MaxUndone :
        LET s == Undos(Edits(OnLOAD_FILE(Fresh, rows), MAX_HISTORY - short), undone)
        IN  /\ heap = s.heap
            /\ masterData = s.masterData
            /\ currentData = s.currentData
            /\ aliased = s.aliased
            /\ history = s.history
            /\ historyIndex = s.historyIndex
            /\ stamp = s.stamp
            /\ viewOrigin = "master"
            /\ viewMutated = FALSE
            /\ request = Req("")
            /\ out = <<>>
            /\ steps = 0
            /\ HostInit

HistoryNext ==
    \/ CELL_EDIT
    \/ DELETE_ROW
    \/ UNDO
    \/ REDO

SpecHistory == HistoryInit /\ [][HistoryNext]_vars

\* -1 <= historyIndex <= len(history) - 1 and len(history) <= 50
HistoryBounds(s) ==
    /\ -1 <= s.historyIndex
    /\ s.historyIndex <= Len(s.history) - 1
    /\ Len(s.history) <= MAX_HISTORY

\* the log after the recording: the oldest entry gone, the others kept in order,
\* the new entry last and under the cursor
Evicted(s) ==
    /\ Len(s.history) = MAX_HISTORY
    /\ SubSeq(s.history, 1, MAX_HISTORY - 1) = SubSeq(history, 2, MAX_HISTORY)
    /\ s.historyIndex = MAX_HISTORY - 1
    /\ s.history[MAX_HISTORY].type = "CELL_EDIT"
    /\ s.history[MAX_HISTORY].newValue = Str("k")

(* C22 as stated: the bounds hold in every state, and recording an action   *)
(* when the log holds 50 entries evicts the oldest entry, keeps the length  *)
(* at 50 and leaves the cursor on the new, last entry.                      *)
C22_FullLogEvictsOldest ==
    /\ HistoryBounds(St)
    /\ (Len(history) = MAX_HISTORY /\ InView(St, 0)) =>
          Evicted(OnCELL_EDIT(St, 0, "b", Str("k")))

(* C22: the bounds hold in every state; recording an action when the log    *)
(* holds 50 entries and the cursor is on the last of them evicts the oldest *)
(* entry, keeps the length at 50 and leaves the cursor on the new, last     *)
(* entry; with the cursor before the last entry the entries after it are    *)
(* dropped, none is evicted, and the cursor is again on the new last entry. *)
C22_HistoryBounds ==
    /\ HistoryBounds(St)
    /\ InView(St, 0) =>
          LET s == OnCELL_EDIT(St, 0, "b", Str("k"))
          IN  /\ HistoryBounds(s)
              /\ s.historyIndex = Len(s.history) - 1
              /\ (Len(history) = MAX_HISTORY /\ historyIndex = MAX_HISTORY - 1) => Evicted(s)
              /\ historyIndex < MAX_HISTORY - 1 =>
                    /\ Len(s.history) = historyIndex + 2
                    /\ SubSeq(s.history, 1, historyIndex + 1)
                           = SubSeq(history, 1, historyIndex + 1)

\* a recording has just evicted the oldest entry of a full log
C22_Witness ==
    /\ Took("CELL_EDIT")
    /\ steps >= 2
    /\ Len(history) = MAX_HISTORY
    /\ historyIndex = MAX_HISTORY - 1
    /\ history[MAX_HISTORY - 1].newValue = Str("w")
    /\ history[MAX_HISTORY].oldValue = Str("w")
    /\ history[1].oldValue # Str("x")

-----------------------------------------------------------------------------
\* the requests that record an action
Recording == {"CELL_EDIT", "DELETE_ROW", "DELETE_ROWS"}

RECURSIVE Replay(_, _)
\* the worker after the UNDO / REDO requests of seq, in order
Replay(s, seq) ==
    IF seq = <<>> THEN s
    ELSE Replay(IF Head(seq) = "UNDO" THEN OnUNDO(s) ELSE OnREDO(s), Tail(seq))

MaxReplay == 3         \* UNDO / REDO requests replayed after a recording

UndoRedoSequences == UNION {[1..n -> {"UNDO", "REDO"}] : n \in 0..MaxReplay}

(* C23: a CELL_EDIT, DELETE_ROW or DELETE_ROWS that takes effect drops the  *)
(* actions after the cursor and appends its own: afterwards the cursor is   *)
(* on the last entry, canRedo is reported false, REDO changes nothing, and  *)
(* no sequence of UNDO and REDO brings a dropped action back into the log.  *)
C23_RecordingTruncates ==
    [][(request'.type \in Recording /\ request'.fault = "" /\ out' # <<>>) =>
          /\ historyIndex' = Len(history') - 1
          /\ history' = Append(SubSeq(history, 1, historyIndex + 1),
                               history'[Len(history')])
          /\ \E i \in 1..Len(out') :
                out'[i].type = "HISTORY_STATE" /\ ~out'[i].canRedo /\ out'[i].canUndo
          /\ OnREDO([St' EXCEPT !.out = <<>>]) = [St' EXCEPT !.out = <<>>]
          /\ \A seq \in UndoRedoSequences :
                Replay([St' EXCEPT !.out = <<>>], seq).history = history']_vars

\* an edit recorded after every earlier action had been undone: the log holds
\* the edit alone, though a deletion, an undo or a redo has changed the view
C23_Witness ==
    /\ Took("CELL_EDIT")
    /\ viewMutated
    /\ Len(history) = 1
    /\ historyIndex = 0
    /\ ~CanRedo(St)

-----------------------------------------------------------------------------
(* C24: UNDO with the cursor before the first entry and REDO with the       *)
(* cursor at the log's end change nothing (master, view, rows, log and      *)
(* cursor); otherwise UNDO moves the cursor back by exactly one and REDO    *)
(* forward by exactly one, and neither changes the list of recorded actions.*)
C24_UndoRedoCursor ==
    /\ IF historyIndex < 0
       THEN OnUNDO(St) = St
       ELSE /\ OnUNDO(St).historyIndex = historyIndex - 1
            /\ OnUNDO(St).history = history
    /\ IF historyIndex >= Len(history) - 1
       THEN OnREDO(St) = St
       ELSE /\ OnREDO(St).historyIndex = historyIndex + 1
            /\ OnREDO(St).history = history

\* a REDO has moved the cursor forward onto the last of two actions, and a
\* further REDO would be a no-op
C24_Witness ==
    /\ Took("REDO")
    /\ Len(history) = 2
    /\ historyIndex = 1
    /\ OnREDO(St) = St
    /\ OnUNDO(St).historyIndex = 0

-----------------------------------------------------------------------------
\* the collections after the reinsertion of one deleted row, as C25 words it:
\* master takes the recorded row object at the recorded index when the index is
\* within master's length and otherwise at the end, the view takes it at its
\* end; a row whose identifier master holds is not inserted again
Reinserted(s, item) ==
    IF FindIndex(s, s.masterData, item.rowId) # -1 THEN s
    ELSE
        LET len == Len(s.masterData)
            at == IF item.masterIndex >= 0 /\ item.masterIndex <= len
                  THEN item.masterIndex ELSE len
        IN  [s EXCEPT !.masterData = InsertAt(s.masterData, at, item.rowObj),
                      !.currentData = Append(s.currentData, item.rowObj)]

RECURSIVE ReinsertedEach(_, _)
ReinsertedEach(s, items) ==
    IF items = <<>> THEN s ELSE ReinsertedEach(Reinserted(s, Head(items)), Tail(items))

\* the action under the cursor is a row deletion
DeletionAt(k) == k >= 1 /\ k <= Len(history) /\ history[k].type \in {"DELETE_ROW", "DELETE_ROWS"}

(* C25: UNDO of a row deletion reinserts into master the row object that    *)
(* was removed, unchanged, at the recorded master index when that index is  *)
(* within master's length and otherwise at the end, and appends the row to  *)
(* the end of the view; a row whose identifier master already holds is not  *)
(* inserted again.                                                          *)
C25_UndoReinsertsRow ==
    DeletionAt(historyIndex + 1) =>
        LET s == OnUNDO(St)
            e == ReinsertedEach(St, history[historyIndex + 1].items)
        IN  /\ s.masterData = e.masterData
            /\ s.currentData = e.currentData
            /\ s.heap = heap

-----------------------------------------------------------------------------
\* no row of the collection q carries the identifier or is the row object
Gone(s, q, item) ==
    /\ FindIndex(s, q, item.rowId) = -1
    /\ item.rowObj \notin Range(q)

(* C26: REDO of a row deletion, a DELETE_ROW action as well as every item   *)
(* of a DELETE_ROWS action, removes the row with the recorded identifier    *)
(* from master and from the view: after the REDO the row is in neither.     *)
C26_RedoRemovesFromBoth ==
    DeletionAt(historyIndex + 2) =>
        LET s == OnREDO(St)
            items == history[historyIndex + 2].items
        IN  \A i \in 1..Len(items) :
                /\ Gone(s, s.masterData, items[i])
                /\ Gone(s, s.currentData, items[i])

-----------------------------------------------------------------------------
\* q without its first row of identifier id; q itself when no row carries it
WithoutId(s, q, id) ==
    LET k == FindIndex(s, q, id)
    IN  IF k = -1 THEN q ELSE RemoveAt(q, k)

(* C27: DELETE_ROW at a valid view index i removes the row shown at i from  *)
(* the view and the row of the same identifier from master, wherever it is  *)
(* there; every other row stays, in the same relative order and with the    *)
(* same cells, in both collections; exactly one DELETE_ROW action is        *)
(* recorded, holding the row and its master index.                          *)
C27_DeleteRowRemovesOne ==
    \A i \in 0..(Len(currentData) - 1) :
        LET s == OnDELETE_ROW(St, i)
            rowObj == currentData[i + 1]
            rowId == heap[rowObj]["_id"]
            action == s.history[s.historyIndex + 1]
        IN  /\ s.currentData = RemoveAt(currentData, i)
            /\ s.masterData = WithoutId(St, masterData, rowId)
            /\ FindIndex(St, masterData, rowId) # -1
            /\ s.heap = heap
            /\ s.history = Append(SubSeq(history, 1, historyIndex + 1), action)
            /\ action = DeleteRowAction(rowId, rowObj, FindIndex(St, masterData, rowId))

-----------------------------------------------------------------------------
\* the identifiers the given rows carry
GivenIds(rows) == {rows[i]["_id"] : i \in 1..Len(rows)} \ {Undefined}

(* C28: LOAD_EXISTING_DATA makes the given rows the master collection, in   *)
(* the given order; a row that carries an identifier is taken unchanged, a  *)
(* row that lacks one gets a fresh identifier and keeps its cells; the view *)
(* mirrors master; the answer is one DATA_LOADED and no SESSION_SAVE_NEEDED.*)
C28_LoadExistingData ==
    Took("LOAD_EXISTING_DATA") =>
        LET rows == request.rows
            adopted == Rows(St, masterData)
        IN  /\ Len(adopted) = Len(rows)
            /\ \A i \in 1..Len(rows) :
                  IF rows[i]["_id"] # Undefined
                  THEN adopted[i] = rows[i]
                  ELSE /\ adopted[i] = [rows[i] EXCEPT !["_id"] = adopted[i]["_id"]]
                       /\ ~Falsy(adopted[i]["_id"])
                       /\ adopted[i]["_id"] \notin GivenIds(rows)
                       /\ \A j \in 1..Len(rows) : j # i => adopted[j]["_id"] # adopted[i]["_id"]
            /\ currentData = masterData
            /\ out = <<Msg("DATA_LOADED", adopted)>>

\* a stored session with a row that lacks an identifier has been adopted: that
\* row has a new identifier, the other is as it was
C28_Witness ==
    /\ Took("LOAD_EXISTING_DATA")
    /\ \E i, j \in 1..Len(request.rows) :
          /\ request.rows[i]["_id"] = Undefined
          /\ heap[masterData[i]]["_id"] # Undefined
          /\ request.rows[j]["_id"] # Undefined
          /\ heap[masterData[j]] = request.rows[j]
    /\ history # <<>>

-----------------------------------------------------------------------------
\* the direction tokens of C29: ASC, DESC, none, one the engine does not know
Directions == {<<"SORT", "a", "ASC">>, <<"SORT", "a", "DESC">>, <<"SORT", "a">>,
               <<"SORT", "a", "UP">>}

\* the values of column col in the order of the rows q
ColumnOf(heapOf, q, col) == [i \in 1..Len(q) |-> Get(heapOf[q[i]], col)]

\* no missing value before a present one
MissingLast(vals) ==
    \A i, j \in 1..Len(vals) : (i < j /\ Missing(vals[i])) => Missing(vals[j])

\* of two present values the smaller is first (descending: the larger)
Ordered(vals, descending) ==
    \A i, j \in 1..Len(vals) :
        (i < j /\ ~Missing(vals[i]) /\ ~Missing(vals[j])) =>
            IF descending THEN ~Lt(vals[i], vals[j]) ELSE ~Lt(vals[j], vals[i])

(* C29: SORT by a column puts every row whose value is missing (NA, null,   *)
(* undefined, empty string) after every row whose value is present, for ASC *)
(* and DESC; among present values ASC puts the smaller first and DESC the   *)
(* larger; a missing or unrecognized direction token sorts ascending.       *)
C29_SortMissingLast ==
    \A parts \in Directions :
        LET vals == ColumnOf(heap, SORT(heap, currentData, parts), "a")
        IN  /\ MissingLast(vals)
            /\ Ordered(vals, Part(parts, 3) = "DESC")
            /\ Part(parts, 3) \notin {"ASC", "DESC"} =>
                  SORT(heap, currentData, parts)
                      = SORT(heap, currentData, <<"SORT", "a", "ASC">>)

-----------------------------------------------------------------------------
\* the operand between double quotes, as the toolbar and the column headers send it
Quoted(x) == CASE x = "1" -> "\"1\"" [] x = "x" -> "\"x\"" [] x = "a" -> "\"a\""

FilterOps == {">", "<", "=", ">=", "<=", "contains"}

FilterValues == {"1", "x"}

(* C30: quoted operands are unquoted before use.  FILTER col op "v" gives   *)
(* the result of FILTER col op v for every operator and value (a quoted     *)
(* numeric literal compares numerically), and SORT "col" dir gives the      *)
(* result of SORT col dir.                                                  *)
C30_QuotedOperands ==
    /\ \A op \in FilterOps, v \in FilterValues :
          FILTER(heap, currentData, <<"FILTER", "a", op, Quoted(v)>>)
              = FILTER(heap, currentData, <<"FILTER", "a", op, v>>)
    /\ \A dir \in {"ASC", "DESC"} :
          SORT(heap, currentData, <<"SORT", Quoted("a"), dir>>)
              = SORT(heap, currentData, <<"SORT", "a", dir>>)

-----------------------------------------------------------------------------
\* the numbers STATS is to compute over, as C31 words it: the values that are
\* not missing and that Number() makes a number
Eligible(vals) ==
    LET kept == SelectSeq2(vals, {i \in 1..Len(vals) :
                                     ~Missing(vals[i]) /\ ~isNaN(ToNumber(vals[i]))}, 1)
    IN  [i \in 1..Len(kept) |-> ToNumber(kept[i]).n]

(* C31: STATS over a column returns count, min, max, sum and avg (sum over  *)
(* count) of exactly the values that are non-missing (not NA, null,         *)
(* undefined, empty string) and numeric-coercible; other values are left    *)
(* out without an error; with no such value the result is count 0, sum 0,   *)
(* avg 0 and no min/max; STATS does not change the current view.            *)
C31_StatsOverEligible ==
    LET parts == <<"STATS", "a">>
        stats == STATS(heap, currentData, parts)
        values == Eligible(ColumnOf(heap, currentData, "a"))
        s == OnRUN_COMMAND(St, parts)
    IN  /\ stats.count = Len(values)
        /\ stats.sum = Fold(values, 0, "sum")
        /\ stats.minmax = (Len(values) > 0)
        /\ Len(values) > 0 =>
              /\ stats.min = Fold(values, values[1], "min")
              /\ stats.max = Fold(values, values[1], "max")
        /\ s.currentData = currentData /\ s.masterData = masterData /\ s.heap = heap
        /\ s.out = <<[Msg("COMMAND_RESULT", <<>>) EXCEPT !.stats = stats]>>

-----------------------------------------------------------------------------
(* C32: EXPORT_RAW_JSON returns every row of master, in master order and    *)
(* with the identifiers, whatever the view shows, and leaves master, view,  *)
(* rows and history unchanged.                                              *)
C32_SnapshotIsMaster ==
    /\ LET s == OnEXPORT_RAW_JSON(St)
       IN  /\ s.out = <<Msg("RAW_JSON_EXPORT", Rows(St, masterData))>>
           /\ [s EXCEPT !.out = <<>>] = St
    /\ Took("EXPORT_RAW_JSON") =>
          /\ Len(out) = 1
          /\ out[1].type = "RAW_JSON_EXPORT"
          /\ out[1].rows = [i \in 1..Len(masterData) |-> heap[masterData[i]]]

\* a snapshot taken while the view shows a projection of fewer rows than master
\* holds: the snapshot has master's rows, identifiers included
C32_Witness ==
    /\ Took("EXPORT_RAW_JSON")
    /\ viewOrigin = "select"
    /\ Len(currentData) < Len(masterData)
    /\ Len(out[1].rows) = Len(masterData)
    /\ \A i \in 1..Len(masterData) : out[1].rows[i]["_id"] # Undefined

-----------------------------------------------------------------------------
(* C33: SELECT returns one new detached row per source row, in source       *)
(* order, holding the named columns only and the source row's identifier,   *)
(* so that an edit made through the projected view is recorded against the  *)
(* identifier of the master row it came from.                               *)
C33_SelectKeepsIdentifier ==
    LET parts == <<"SELECT", "a">>
        res == SELECT(heap, currentData, parts)
        s == OnCELL_EDIT(OnRUN_COMMAND(St, parts), 0, "a", Str("w"))
    IN  /\ Len(res) = Len(currentData)
        /\ \A i \in 1..Len(res) :
              /\ res[i]["a"] = heap[currentData[i]]["a"]
              /\ res[i]["b"] = Undefined
              /\ res[i]["_id"] = heap[currentData[i]]["_id"]
        /\ currentData # <<>> =>
              s.history[s.historyIndex + 1].rowId = heap[currentData[1]]["_id"]

-----------------------------------------------------------------------------
RECURSIVE IsSubsequence(_, _)
\* res is src with some elements left out
IsSubsequence(res, src) ==
    IF res = <<>> THEN TRUE
    ELSE IF src = <<>> THEN FALSE
    ELSE IF Head(res) = Head(src) THEN IsSubsequence(Tail(res), Tail(src))
    ELSE IsSubsequence(res, Tail(src))

\* the commands of the model whose verb is FILTER, SORT, SELECT, STATS or EXPORT
Queries ==
    {parts \in Commands : Upper(parts[1]) \in {"FILTER", "SORT", "SELECT", "STATS", "EXPORT"}}

\* master (membership, order, cells) and the history are in s as they are now
AuthoritativeKept(s) ==
    /\ s.masterData = masterData
    /\ \A r \in Range(masterData) : s.heap[r] = heap[r]
    /\ s.history = history
    /\ s.historyIndex = historyIndex

(* C34: FILTER, SORT, SELECT, STATS, EXPORT and RESET never change master   *)
(* (membership, order, cell values) nor the history (entries, cursor); the  *)
(* results of FILTER and SORT hold only references to rows of their source, *)
(* and FILTER keeps the source's relative order.                            *)
C34_QueriesKeepMaster ==
    /\ \A parts \in Queries : AuthoritativeKept(OnRUN_COMMAND(St, parts))
    /\ AuthoritativeKept(OnRESET(St))
    /\ \A parts \in Queries :
          LET source == IF isNAPresetFilter(parts) THEN masterData ELSE currentData
              s == OnRUN_COMMAND(St, parts)
          IN  /\ Upper(parts[1]) = "FILTER" => IsSubsequence(s.currentData, source)
              /\ Upper(parts[1]) = "SORT" => IsPermutation(source, s.currentData)

\* a FILTER has run after an edit and a deletion: the view is shorter than
\* master, master and the log are as the deletion left them
C34_Witness ==
    /\ Took("RUN_COMMAND")
    /\ Upper(request.parts[1]) = "FILTER"
    /\ Len(history) = 2
    /\ Len(masterData) = 1
    /\ currentData = <<>>

-----------------------------------------------------------------------------
(* C35: in every reachable state every row of master carries a defined      *)
(* identifier: no sequence of commands, edits, deletions, undos and redos   *)
(* inserts into master a detached projected copy or a row without an        *)
(* identifier.                                                              *)
C35_MasterRowsIdentified ==
    \A i \in 1..Len(masterData) : heap[masterData[i]]["_id"] # Undefined

-----------------------------------------------------------------------------
(* C36: in every reachable state the view holds each row at most once: no   *)
(* row object and no identifier is at two view indices, after any sequence  *)
(* of deletions, undos and redos.                                           *)
C36_ViewRowsOnce ==
    \A i, j \in 1..Len(currentData) :
        i # j =>
            /\ currentData[i] # currentData[j]
            /\ heap[currentData[i]]["_id"] # Undefined =>
                  heap[currentData[i]]["_id"] # heap[currentData[j]]["_id"]

-----------------------------------------------------------------------------
\* the view indices of the list that are in range when the request arrives
Listed(rowIndices) == {i \in Range(rowIndices) : InView(St, i)}

\* q without the elements at the 0-based positions of gone
Without(q, gone) == SelectSeq2(q, {i \in 1..Len(q) : (i - 1) \notin gone}, 1)

(* C37: DELETE_ROWS with any list of view indices (unsorted, with indices   *)
(* out of range, with an index more than once) removes from the view and    *)
(* from master exactly the rows that were at the listed in-range indices    *)
(* when the request arrived, and records exactly one DELETE_ROWS entry      *)
(* whose items are exactly those rows; nothing is recorded when no row was  *)
(* removed.                                                                 *)
C37_DeleteRowsRemovesListed ==
    \A rowIndices \in IndexLists :
        LET s == OnDELETE_ROWS(St, rowIndices)
            listed == Listed(rowIndices)
            rows == {currentData[i + 1] : i \in listed}
        IN  /\ s.currentData = Without(currentData, listed)
            /\ Range(s.masterData) = Range(masterData) \ rows
            /\ IsSubsequence(s.masterData, masterData)
            /\ IF listed = {}
               THEN s.history = history /\ s.historyIndex = historyIndex
               ELSE /\ s.history = Append(SubSeq(history, 1, historyIndex + 1),
                                          s.history[s.historyIndex + 1])
                    /\ s.history[s.historyIndex + 1].type = "DELETE_ROWS"
                    /\ {it.rowObj : it \in Range(s.history[s.historyIndex + 1].items)} = rows
                    /\ Len(s.history[s.historyIndex + 1].items) = Cardinality(rows)

-----------------------------------------------------------------------------
(* C38: an UNDO issued immediately after a DELETE_ROW or DELETE_ROWS        *)
(* restores master to exactly its sequence before the deletion (same rows,  *)
(* same order), whatever the order and extent of the view through which the *)
(* rows were deleted (unfiltered, filtered and/or sorted).                  *)
C38_UndoRestoresMaster ==
    viewOrigin # "select" =>
    /\ \A rowIndex \in RowIndexes :
          OnUNDO(OnDELETE_ROW(St, rowIndex)).masterData = masterData
              \/ ~InView(St, rowIndex)
    /\ \A rowIndices \in IndexLists :
          OnUNDO(OnDELETE_ROWS(St, rowIndices)).masterData = masterData
              \/ Listed(rowIndices) = {}

-----------------------------------------------------------------------------
\* the HISTORY_STATE emitted last: the last one still on its way to the host,
\* or else what the host holds (canUndo = canRedo = false at the start)
LastHistoryState ==
    LET sent == SelectSeq(toHost, LAMBDA m : m.type = "HISTORY_STATE")
    IN  IF sent = <<>> THEN historyState
        ELSE [canUndo |-> sent[Len(sent)].canUndo, canRedo |-> sent[Len(sent)].canRedo]

(* C39 as stated: the HISTORY_STATE emitted last (or the initial canUndo =   *)
(* canRedo = false) agrees with the log, and the host never forwards an     *)
(* UNDO or REDO that the worker has no action for.                          *)
C39_HostNeverSendsImpossible ==
    /\ LastHistoryState.canUndo = CanUndo(St)
    /\ LastHistoryState.canRedo = CanRedo(St)
    /\ request.type \in {"UNDO", "REDO"} => out # <<>>

(* C39: after every request has been handled, the HISTORY_STATE emitted     *)
(* last (or the initial canUndo = canRedo = false) agrees with the log:     *)
(* canUndo = (historyIndex >= 0), canRedo = (historyIndex < len - 1); so    *)
(* the host, once it has received it, forwards UNDO / REDO exactly when the *)
(* worker has an action to undo / redo.                                     *)
C39_HistoryStateAgrees ==
    /\ LastHistoryState.canUndo = CanUndo(St)
    /\ LastHistoryState.canRedo = CanRedo(St)
    /\ toHost = <<>> =>
          /\ historyState.canUndo = (OnUNDO(St) # St)
          /\ historyState.canRedo = (OnREDO(St) # St)

\* the host holds canUndo and canRedo both true: of two recorded actions one
\* has been undone, and every message has been delivered
C39_Witness ==
    /\ toHost = <<>>
    /\ toWorker = <<>>
    /\ historyState = [canUndo |-> TRUE, canRedo |-> TRUE]
    /\ Len(history) = 2
    /\ historyIndex = 0

-----------------------------------------------------------------------------
(***************************************************************************)
(* The host and the worker under fair scheduling: a posted request is      *)
(* eventually handled by the worker, a posted message by the host (each    *)
(* runs its event loop; postMessage delivers in order).                    *)
(***************************************************************************)
\* the worker's event loop takes the request at the head of its queue: the
\* step of WorkerReceives, the only one that removes a request
WorkerTurn == toWorker # <<>> /\ toWorker' = Tail(toWorker)

\* the host's event loop takes the message at the head of its queue: the
\* step of HostReceives, the only one that removes a message
HostTurn == toHost # <<>> /\ toHost' = Tail(toHost)

SpecSyncLive ==
    /\ Init
    /\ [][SyncNext]_vars
    /\ WF_toWorker(WorkerTurn)
    /\ WF_toHost(HostTurn)

\* EXPORT_RAW_JSON requests the worker has handled so far: the requests
\* handled that were not posted by a user action
SnapshotsTaken ==
    steps - (posted - Cardinality({i \in 1..Len(toWorker) :
                                      toWorker[i].type # "EXPORT_RAW_JSON"}))

\* SESSION_SAVE_NEEDED messages emitted so far: those answered, those whose
\* EXPORT_RAW_JSON is on its way to the worker, those on their way to the host
SignalsEmitted ==
    SnapshotsTaken
        + Cardinality({i \in 1..Len(toWorker) : toWorker[i].type = "EXPORT_RAW_JSON"})
        + CountOf(toHost, "SESSION_SAVE_NEEDED")

\* the worker has just answered the n-th signal: a RAW_JSON_EXPORT whose
\* payload is master as it is now, after every request handled before
Answered(n) ==
    /\ SnapshotsTaken = n
    /\ request.type = "EXPORT_RAW_JSON"
    /\ out = <<Msg("RAW_JSON_EXPORT", Rows(St, masterData))>>

(* C40: with messages delivered in order and host and worker scheduled      *)
(* fairly, every SESSION_SAVE_NEEDED the worker emits is eventually         *)
(* followed by a RAW_JSON_EXPORT whose payload is master in a state that    *)
(* includes the mutation that triggered the signal and every request the    *)
(* worker handled before the EXPORT_RAW_JSON.                               *)
C40_SaveSignalAnswered ==
    \A n \in 1..MaxPosted :
        (SignalsEmitted >= n /\ SnapshotsTaken < n) ~> Answered(n)

\* the snapshot that answers the signal of a deletion: master has lost a row
C40_Witness ==
    /\ Answered(2)
    /\ Len(history) = 1
    /\ history[1].type = "DELETE_ROW"
    /\ Len(out[1].rows) = MaxRows - 1

=============================================================================
